---- MODULE Spec2Model ----
(***************************************************************************)
(* Verification model of the bizinfo-scraper collection engine.            *)
(*                                                                         *)
(*   Spec        collect.js  main(): the multi-source collector, run       *)
(*               several times over the persisted stores.                  *)
(*   SpecDaily   run-daily.js getNewItems() + main(): the single-source    *)
(*               walker with the early-stop rule and its seen-store write. *)
(*   SpecSingle  the same with main() of the selected-URL content          *)
(*               generator (unnamed/part_004), which shares the seen-store.*)
(*   SpecWalkers the collector and the daily batch, the two kinds of       *)
(*               listing walker.                                           *)
(*   SpecBatch   the daily content batch (unnamed/part_002): the walker,   *)
(*               generateMent behind geminiCallWithRetry, the quota        *)
(*               handling of main and its seen-store write.                *)
(*   SpecCalls   the pure functions called on their own on bounded inputs: *)
(*               geminiCallWithRetry, extractValue, extractId,             *)
(*               extractDeadlineFromPeriod, getCategory, the region        *)
(*               functions and the detail fields.                          *)
(*   SpecWalkersFair  SpecWalkers with every started walk going on.        *)
(*   SpecLoop    the await sites of collect.js and of the content batch    *)
(*               on the event loop.                                        *)
(*   SpecAuto    the unattended collector (unnamed/part_000) with its      *)
(*               once-a-day guard over auto_log.txt.                       *)
(*                                                                         *)
(* Strings are TLC strings; a character is a string of length one.         *)
(***************************************************************************)
EXTENDS Integers, Sequences, FiniteSets, TLC

\* ------------------------------------------------------------------------
\* Strings
\* ------------------------------------------------------------------------

Char(s, i) == SubSeq(s, i, i)

Digits == {"0", "1", "2", "3", "4", "5", "6", "7", "8", "9"}

Uppers == {"A", "B", "C", "D", "E", "F", "G", "H", "I", "J", "K", "L", "M",
           "N", "O", "P", "Q", "R", "S", "T", "U", "V", "W", "X", "Y", "Z"}

Lowers == {"a", "b", "c", "d", "e", "f", "g", "h", "i", "j", "k", "l", "m",
           "n", "o", "p", "q", "r", "s", "t", "u", "v", "w", "x", "y", "z"}

\* [0-9]
ClsDigit == Digits

\* [A-Z0-9_]
ClsUpperId == Uppers \cup Digits \cup {"_"}

\* \s restricted to the blank (the only white space of the modelled titles)
ClsSpace == {" "}

\* [A-Za-z0-9\s]: the bracket-tag class of processItems without the Hangul
\* syllables, which the modelled titles do not use
ClsTag == Uppers \cup Lowers \cup Digits \cup ClsSpace

\* String.prototype.startsWith / includes / indexOf-like helpers
StartsAt(s, lit, i) ==
    /\ i >= 1
    /\ i + Len(lit) - 1 <= Len(s)
    /\ SubSeq(s, i, i + Len(lit) - 1) = lit

startsWith(s, lit) == StartsAt(s, lit, 1)

includes(s, lit) == \E i \in 1..(Len(s) + 1) : StartsAt(s, lit, i)

\* The last index j >= i - 1 such that every character of s[i..j] is in cls:
\* the extent of a greedy  [cls]*  started at i.
RECURSIVE RunEnd(_, _, _)
RunEnd(s, i, cls) ==
    IF i <= Len(s) /\ Char(s, i) \in cls THEN RunEnd(s, i + 1, cls) ELSE i - 1

\* The least element of a non-empty set of integers
Least(S) == CHOOSE x \in S : \A y \in S : x <= y

NoMatch == ""

\* /lit([cls]+)/ : the capture of the leftmost match, NoMatch when none.
MatchLit(s, lit, cls) ==
    LET hits == {i \in 1..Len(s) :
                    /\ StartsAt(s, lit, i)
                    /\ i + Len(lit) <= Len(s)
                    /\ Char(s, i + Len(lit)) \in cls}
    IN IF hits = {} THEN NoMatch
       ELSE LET i == Least(hits)
            IN SubSeq(s, i + Len(lit), RunEnd(s, i + Len(lit), cls))

\* /lit([cls]+)close/ : as MatchLit, the run being followed by close.
MatchLitClose(s, lit, cls, close) ==
    LET hits == {i \in 1..Len(s) :
                    /\ StartsAt(s, lit, i)
                    /\ i + Len(lit) <= Len(s)
                    /\ Char(s, i + Len(lit)) \in cls
                    /\ StartsAt(s, close, RunEnd(s, i + Len(lit), cls) + 1)}
    IN IF hits = {} THEN NoMatch
       ELSE LET i == Least(hits)
            IN SubSeq(s, i + Len(lit), RunEnd(s, i + Len(lit), cls))

\* /pre.*?lit([cls]+)/ : pre at the leftmost position that is followed,
\* anywhere later, by lit and a character of cls; the lazy .*? stops at the
\* first such lit.  minGap is the number of characters the pattern consumes
\* between pre and .*? (1 for the [0-9]+ of the pageIndex pattern).
MatchAfter(s, pre, minGap, gapCls, lit, cls) ==
    LET LitAt(j) == /\ StartsAt(s, lit, j)
                    /\ j + Len(lit) <= Len(s)
                    /\ Char(s, j + Len(lit)) \in cls
        From(i) == i + Len(pre) + minGap
        GapOk(i) == \A g \in (i + Len(pre))..(From(i) - 1) :
                        g <= Len(s) /\ Char(s, g) \in gapCls
        Lits(i) == {j \in From(i)..Len(s) : LitAt(j)}
        hits == {i \in 1..Len(s) :
                    StartsAt(s, pre, i) /\ GapOk(i) /\ Lits(i) # {}}
    IN IF hits = {} THEN NoMatch
       ELSE LET j == Least(Lits(Least(hits)))
            IN SubSeq(s, j + Len(lit), RunEnd(s, j + Len(lit), cls))

\* ------------------------------------------------------------------------
\* collect.js  extractId
\* ------------------------------------------------------------------------

\* The printable ASCII characters in code order: 32 (blank) to 95, and 97
\* to 126 (the grave accent, 96, cannot be written in a string here and
\* occurs in no modelled URL)
AsciiLow == " !\"#$%&'()*+,-./0123456789:;<=>?@ABCDEFGHIJKLMNOPQRSTUVWXYZ[\\]^_"

AsciiHigh == "abcdefghijklmnopqrstuvwxyz{|}~"

\* String.prototype.charCodeAt for one printable ASCII character
charCodeAt(c) ==
    IF \E i \in 1..Len(AsciiLow) : Char(AsciiLow, i) = c
    THEN 31 + (CHOOSE i \in 1..Len(AsciiLow) : Char(AsciiLow, i) = c)
    ELSE 96 + (CHOOSE i \in 1..Len(AsciiHigh) : Char(AsciiHigh, i) = c)

Half == 65536

\* hash << 5 on a 32-bit word kept as two 16-bit halves <<hi, lo>> (TLC's
\* integers are themselves 32 bits wide): the bits shifted out are lost
ShiftLeft5(h) ==
    LET lo == h[2] * 32
        hi == h[1] * 32 + (lo \div Half)
    IN <<hi % Half, lo % Half>>

\* One round of   hash = ((hash << 5) - hash) + code;  hash |= 0;
\* the difference and the sum are exact (doubles), and  |= 0  keeps the low
\* 32 bits of the result
HashStep(h, code) ==
    LET lo == ShiftLeft5(h)[2] - h[2] + code
        hi == ShiftLeft5(h)[1] - h[1] + (lo \div Half)
    IN <<hi % Half, lo % Half>>

\* The hash of the first n characters of url
RECURSIVE HashOf(_, _)
HashOf(url, n) ==
    IF n = 0 THEN <<0, 0>>
    ELSE CHOOSE r \in {HashStep(h, charCodeAt(Char(url, n))) : h \in {HashOf(url, n - 1)}} : TRUE

\* The word as the signed 32-bit integer that  hash |= 0  leaves
Signed(h) == IF h[1] >= 32768 THEN (h[1] - Half) * Half + h[2]
                              ELSE h[1] * Half + h[2]

Base36Digits == "0123456789abcdefghijklmnopqrstuvwxyz"

\* Number.prototype.toString(36) of a non-negative integer
RECURSIVE toString36(_)
toString36(n) ==
    IF n < 36 THEN Char(Base36Digits, n + 1)
    ELSE toString36(n \div 36) \o Char(Base36Digits, (n % 36) + 1)

\* Math.abs(hash).toString(36); Math.abs(-2^31) = 2^31 is computed on
\* doubles in the program and exceeds the 32-bit integers here.
AbsToString36(h) ==
    IF h = <<32768, 0>> THEN "zik0zk"
    ELSE LET v == Signed(h) IN toString36(IF v < 0 THEN 0 - v ELSE v)

\* A rendering without Math.abs: Number.prototype.toString(36) writes a
\* negative number with a minus sign
urlHashSigned(url) ==
    LET v == Signed(HashOf(url, Len(url)))
    IN IF v < 0 THEN "-" \o AbsToString36(HashOf(url, Len(url)))
       ELSE AbsToString36(HashOf(url, Len(url)))

urlHash(url) == AbsToString36(HashOf(url, Len(url)))

\* The ordered pattern list of extractId: <<kind, pre, lit/close, class>>
patterns == <<
    [kind |-> "lit",   lit |-> "pblancId=",     cls |-> ClsUpperId],
    [kind |-> "lit",   lit |-> "pbancSn=",      cls |-> ClsDigit],
    [kind |-> "lit",   lit |-> "ancmId=",       cls |-> ClsUpperId],
    [kind |-> "lit",   lit |-> "biz_no=",       cls |-> ClsDigit],
    [kind |-> "lit",   lit |-> "seq=",          cls |-> ClsDigit],
    [kind |-> "page",  lit |-> "&id=",          cls |-> ClsDigit],
    [kind |-> "close", lit |-> "fncGoDetail('", cls |-> ClsDigit],
    [kind |-> "close", lit |-> "goDetail('",    cls |-> ClsDigit],
    [kind |-> "view",  lit |-> "no=",           cls |-> ClsDigit],
    [kind |-> "lit",   lit |-> "bbsSeq=",       cls |-> ClsDigit] >>

\* url.match(pat): the first capture group, NoMatch when the pattern fails
MatchPattern(url, pat) ==
    CASE pat.kind = "lit"   -> MatchLit(url, pat.lit, pat.cls)
      [] pat.kind = "close" -> MatchLitClose(url, pat.lit, pat.cls, "')")
      [] pat.kind = "page"  -> MatchAfter(url, "pageIndex=", 1, ClsDigit, pat.lit, pat.cls)
      [] pat.kind = "view"  -> MatchAfter(url, "view.do", 0, {}, pat.lit, pat.cls)

RECURSIVE extractIdFrom(_, _)
extractIdFrom(url, k) ==
    IF k > Len(patterns) THEN urlHash(url)
    ELSE LET m == MatchPattern(url, patterns[k])
         IN IF m # NoMatch THEN m ELSE extractIdFrom(url, k + 1)

\* An extractId whose list lacks the first pattern
extractIdSkipFirst(url) == extractIdFrom(url, 2)

extractId(url) == extractIdFrom(url, 1)

\* javascript:fncGoDetail('52091'); -> the board-view URL of that number
resolveSemasUrl(rawUrl) ==
    LET m == MatchLitClose(rawUrl, "fncGoDetail('", ClsDigit, "')")
    IN IF m # NoMatch
       THEN "https://www.semas.or.kr/web/board/webBoardView.kmdc?bbs_cd_n=2&seq=" \o m
       ELSE rawUrl

\* ------------------------------------------------------------------------
\* run-daily.js (and the other single-source scripts)  extractId
\* ------------------------------------------------------------------------

\* null: a capture is never empty, so the empty string stands for null
NullId == ""

extractIdSingle(url) == MatchLit(url, "pblancId=", ClsUpperId)

\* ------------------------------------------------------------------------
\* collect.js  processItems: title normalisation
\* ------------------------------------------------------------------------

\* String.prototype.trim
RECURSIVE trimStart(_)
trimStart(s) == IF Len(s) > 0 /\ Char(s, 1) \in ClsSpace THEN trimStart(Tail(s)) ELSE s

RECURSIVE trimEnd(_)
trimEnd(s) ==
    IF Len(s) > 0 /\ Char(s, Len(s)) \in ClsSpace THEN trimEnd(SubSeq(s, 1, Len(s) - 1)) ELSE s

trim(s) == trimEnd(trimStart(s))

\* title.replace(/^\[[tag]+\]\s*/, '').trim()
cleanTitleOf(title) ==
    LET e == RunEnd(title, 2, ClsTag)
    IN IF /\ startsWith(title, "[")
          /\ e >= 2
          /\ StartsAt(title, "]", e + 1)
       THEN trim(SubSeq(title, RunEnd(title, e + 2, ClsSpace) + 1, Len(title)))
       ELSE trim(title)

\* s.replace(/\s+/g, ' ')
RECURSIVE collapseSpaces(_)
collapseSpaces(s) ==
    IF Len(s) = 0 THEN s
    ELSE IF Char(s, 1) \in ClsSpace
         THEN " " \o collapseSpaces(SubSeq(s, RunEnd(s, 1, ClsSpace) + 1, Len(s)))
         ELSE Char(s, 1) \o collapseSpaces(Tail(s))

normalizedTitleOf(title) == trim(collapseSpaces(cleanTitleOf(title)))

\* ------------------------------------------------------------------------
\* collect.js  extractDeadlineFromPeriod
\* ------------------------------------------------------------------------

\* [.\-] : the ASCII separators of the date pattern
ClsDateSep == {".", "-"}

IsDigitAt(s, i) == i >= 1 /\ i <= Len(s) /\ Char(s, i) \in Digits

IsSepAt(s, i) == i >= 1 /\ i <= Len(s) /\ Char(s, i) \in ClsDateSep

\* The number of digits a greedy \d{1,2} takes at i when what follows it must
\* be a separator (needSep) or may be anything; 0 when it cannot match.
TwoDigits(s, i, needSep) ==
    IF IsDigitAt(s, i) /\ IsDigitAt(s, i + 1) /\ (needSep => IsSepAt(s, i + 2)) THEN 2
    ELSE IF IsDigitAt(s, i) /\ (needSep => IsSepAt(s, i + 1)) THEN 1
    ELSE 0

\* /(\d{4})[.\-]\s*(\d{1,2})[.\-]\s*(\d{1,2})/ anchored at i:
\* [ok, y, m, d, end] with end the index of the last character matched
DateAt(s, i) ==
    LET yearOk == \A k \in 0..3 : IsDigitAt(s, i + k)
        mStart == RunEnd(s, i + 5, ClsSpace) + 1
        mLen   == TwoDigits(s, mStart, TRUE)
        dStart == RunEnd(s, mStart + mLen + 1, ClsSpace) + 1
        dLen   == TwoDigits(s, dStart, FALSE)
        ok     == yearOk /\ IsSepAt(s, i + 4) /\ mLen > 0 /\ dLen > 0
    IN IF ok
       THEN [ok |-> TRUE, y |-> SubSeq(s, i, i + 3),
             m |-> SubSeq(s, mStart, mStart + mLen - 1),
             d |-> SubSeq(s, dStart, dStart + dLen - 1),
             end |-> dStart + dLen - 1]
       ELSE [ok |-> FALSE, y |-> "", m |-> "", d |-> "", end |-> i]

\* [...period.matchAll(datePattern)] : the matches from left to right, each
\* search resuming after the previous match
RECURSIVE matchAllDates(_, _)
matchAllDates(s, from) ==
    LET starts == {i \in from..Len(s) : DateAt(s, i).ok}
    IN IF starts = {} THEN <<>>
       ELSE LET m == DateAt(s, Least(starts))
            IN <<m>> \o matchAllDates(s, m.end + 1)

\* String.prototype.padStart(2, '0')
padStart2(t) == IF Len(t) < 2 THEN "0" \o t ELSE t

\* A normalizer that takes the first date of the string
extractDeadlineFirst(period) ==
    IF period = "" THEN ""
    ELSE LET matches == matchAllDates(period, 1)
         IN IF Len(matches) = 0 THEN ""
            ELSE LET first == matches[1]
                 IN first.y \o "-" \o padStart2(first.m) \o "-" \o padStart2(first.d)

extractDeadlineFromPeriod(period) ==
    IF period = "" THEN ""
    ELSE LET matches == matchAllDates(period, 1)
         IN IF Len(matches) = 0 THEN ""
            ELSE LET last == matches[Len(matches)]
                 IN last.y \o "-" \o padStart2(last.m) \o "-" \o padStart2(last.d)

\* ------------------------------------------------------------------------
\* The monitored sites
\* ------------------------------------------------------------------------

Sources == <<"bizinfo", "kstartup", "sbiz", "smtech">>

\* while (currentPage <= 15) of collectBizinfo, <= 10 of the other walkers
MaxPagesOf(s) == IF s = "bizinfo" THEN 15 ELSE 10

Item(t, u, d) == [title |-> t, url |-> u, date |-> d]

Page(its, next) == [items |-> its, hasNext |-> next]

B1 == Item("[Seoul] Startup fund", "https://b/view.do?pblancId=PBLN_1", "2026-03-01")
B2 == Item("Export voucher", "https://b/view.do?pblancId=PBLN_2", "2026.02.25 ~ 2026.03.24")
\* the URL of B1 under another title
B3 == Item("Startup fund (revised)", "https://b/view.do?pblancId=PBLN_1", "2026-03-02")
\* the title of B1 up to its tag and white space, under another URL
B4 == Item("Startup  fund ", "https://b/view.do?pblancId=PBLN_4", "")
\* a link whose id is not upper case: no id for the single-source scripts
B5 == Item("Local market day", "https://b/view.do?pblancId=pbln5", "")

K1 == Item("Startup fund", "https://k/o.do?schM=view&pbancSn=101", "2026-03-05")
K2 == Item("Global camp", "https://k/o.do?schM=view&pbancSn=102", "")

S1 == Item("Shop renewal", "javascript:fncGoDetail('52091');", "2026.03.01")
S2 == Item("Market support", "#none", "")

M1 == Item("Tech RnD notice", "https://m/d.do?ancmId=S01", "2026. 03. 01 ~ 2026. 03. 31")

\* The listings a site may show: a sequence of pages, each with its items
\* and whether it links to the next page number
BizinfoListings ==
    { <<Page(<<B1, B2>>, TRUE), Page(<<B4>>, FALSE)>>,
      <<Page(<<B1, B3>>, FALSE)>>,
      <<Page(<<B5, B1>>, TRUE), Page(<<B2, B4>>, TRUE), Page(<<B2>>, TRUE)>>,
      <<Page(<<B2>>, TRUE)>> }

KStartupListings ==
    { <<Page(<<K1>>, TRUE), Page(<<K2>>, FALSE)>>,
      <<>> }

SbizListings == { <<Page(<<S1, S2>>, FALSE)>> }

\* A listing that never ends: every page shows the item and links to the next
endless(item, n) == [p \in 1..n |-> Page(<<item>>, TRUE)]

\* ... the second one longer than the walker's page limit
SmtechListings ==
    { <<Page(<<M1>>, FALSE)>>,
      endless(M1, MaxPagesOf("smtech") + 1) }

Listings ==
    { [s \in {"bizinfo", "kstartup", "sbiz", "smtech"} |->
          CASE s = "bizinfo"  -> b
            [] s = "kstartup" -> k
            [] s = "sbiz"     -> z
            [] s = "smtech"   -> m] :
      b \in BizinfoListings, k \in KStartupListings,
      z \in SbizListings, m \in SmtechListings }

\* ------------------------------------------------------------------------
\* Tables of the pure functions over the strings of the modelled sites
\* ------------------------------------------------------------------------

NoDetail == <<>>

ItemPool == {B1, B2, B3, B4, B5, K1, K2, S1, S2, M1}

UrlPool == {i.url : i \in ItemPool} \cup {resolveSemasUrl(i.url) : i \in ItemPool}

TitlePool == {i.title : i \in ItemPool}

extractIdTable == [u \in UrlPool |-> extractId(u)]

extractIdSingleTable == [u \in UrlPool |-> extractIdSingle(u)]

cleanTitleTable == [t \in TitlePool |-> cleanTitleOf(t)]

normalizedTitleTable == [t \in TitlePool |-> normalizedTitleOf(t)]

\* ------------------------------------------------------------------------
\* collect.js  processItems
\* ------------------------------------------------------------------------

\* One record of processItems (the classification fields of the title are
\* not part of the state)
Record(item, sourceId, db) ==
    LET id == sourceId \o "_" \o extractIdTable[item.url]
    IN [id         |-> id,
        source     |-> sourceId,
        title      |-> item.title,
        url        |-> item.url,
        date       |-> item.date,
        cleanTitle |-> cleanTitleTable[item.title],
        isNew      |-> id \notin DOMAIN db,
        detail     |-> NoDetail]

RECURSIVE processFrom(_, _, _, _, _)
processFrom(rawItems, k, sourceId, db, seenTitles) ==
    IF k > Len(rawItems) THEN <<>>
    ELSE LET item == rawItems[k]
             normalizedTitle == normalizedTitleTable[item.title]
         IN IF normalizedTitle \in seenTitles
            THEN processFrom(rawItems, k + 1, sourceId, db, seenTitles)
            ELSE <<Record(item, sourceId, db)>> \o
                 processFrom(rawItems, k + 1, sourceId, db,
                             seenTitles \cup {normalizedTitle})

\* processItems without its seenTitles set: every raw item becomes a record
processItemsNoDedup(rawItems, sourceId, db) ==
    [k \in 1..Len(rawItems) |-> Record(rawItems[k], sourceId, db)]

processItems(rawItems, sourceId, db) == processFrom(rawItems, 1, sourceId, db, {})

\* ------------------------------------------------------------------------
\* collect.js  fetchItemDetail and the detail clean-up of main
\* ------------------------------------------------------------------------

\* What page.evaluate extracts from the detail document of a URL: the
\* documents of the modelled sites
PageDetail(url) ==
    CASE includes(url, "PBLN_1")  -> [period |-> "2026.02.25 ~ 2026.03.24",
                                      eligibility |-> "Founders under 39"]
      [] includes(url, "PBLN_2")  -> NoDetail
      [] includes(url, "PBLN_4")  -> [amount |-> "TBD", content |-> " -  "]
      [] includes(url, "pbancSn") -> [period |-> "2026-04-01"]
      [] OTHER                    -> [content |-> "Support for shops"]

PageDetailTable == [u \in UrlPool |-> PageDetail(u)]

\* Whether fetchItemDetail navigates to the URL at all
Fetchable(url) ==
    url # "" /\ ~startsWith(url, "javascript:") /\ startsWith(url, "http")

\* fetchItemDetail: outcome "throws" is page.goto or page.evaluate throwing
fetchItemDetail(url, outcome) ==
    IF ~Fetchable(url) THEN NoDetail
    ELSE IF outcome = "throws" THEN NoDetail
    ELSE PageDetailTable[url]

\* JUNK_VALUES, a Hangul syllable written as one capital letter so that the
\* lengths are those of the source: "G B" = 구 분, "GB" = 구분, "*" = the
\* middle dot, "HDEU" = 해당없음, "EU" = 없음
JUNK_VALUES == {"G B", "GB", "-", "*", "HDEU", "EU", ""}

\* cleaned: the fields of a cached detail that main keeps
cleanedDetail(d) ==
    LET keep == {k \in DOMAIN d :
                    /\ d[k] # ""
                    /\ trim(d[k]) \notin JUNK_VALUES
                    /\ Len(trim(d[k])) > 3}
    IN [k \in keep |-> d[k]]

\* The strings main hands to extractDeadlineFromPeriod
PeriodPool ==
    {""} \cup {i.date : i \in ItemPool}
         \cup {PageDetailTable[u]["period"] :
                  u \in {v \in UrlPool : "period" \in DOMAIN PageDetailTable[v]}}

extractDeadlineTable == [t \in PeriodPool |-> extractDeadlineFromPeriod(t)]

\* The record after  allItems.forEach(item => ...)  of main
\* A clean-up that hands every listing date to the normalizer
applyDetailAnyDate(item, cache) ==
    LET d        == IF item.id \in DOMAIN cache THEN cache[item.id] ELSE NoDetail
        cleaned  == cleanedDetail(d)
        period   == IF "period" \in DOMAIN cleaned THEN cleaned["period"] ELSE ""
        deadline == IF extractDeadlineFromPeriod(period) # ""
                    THEN extractDeadlineFromPeriod(period)
                    ELSE extractDeadlineFromPeriod(item.date)
    IN [item EXCEPT !.detail = cleaned,
                    !.date = IF deadline # "" THEN deadline ELSE @]

applyDetail(item, cache) ==
    LET d        == IF item.id \in DOMAIN cache THEN cache[item.id] ELSE NoDetail
        cleaned  == cleanedDetail(d)
        period   == IF "period" \in DOMAIN cleaned THEN cleaned["period"] ELSE ""
        byPeriod == extractDeadlineTable[period]
        deadline == IF byPeriod # "" THEN byPeriod
                    ELSE IF item.date # "" /\ includes(item.date, "~")
                         THEN extractDeadlineTable[item.date]
                         ELSE ""
    IN [item EXCEPT !.detail = cleaned,
                    !.date = IF deadline # "" THEN deadline ELSE @]

\* ------------------------------------------------------------------------
\* State
\* ------------------------------------------------------------------------

\* Runs started in one behaviour
MaxRuns == 2

\* Failures injected in one behaviour: a navigation or evaluation that
\* throws, a file write that throws, a mail that is not sent, a killed process
MaxFaults == 1

\* The UTC day number of the first run
Day0 == 20

\* cutoff.setDate(cutoff.getDate() - 7) of cleanOldDailyFiles
RetentionDays == 7

VARIABLES
    listing,        \* the sites: source -> sequence of pages
    dbFile,         \* collected_ids.json: id -> first-seen value
    cacheFile,      \* docs/detail-cache.json: id -> detail
    todayListFile,  \* docs/today-list.json: the last snapshot written
    dailyFiles,     \* docs/daily/<date>.json: the dates that have a file
    utcDay,         \* the clock: the UTC day number ...
    kstAhead,       \* ... and whether the KST date is already the next day
    run,            \* number of runs started
    script,         \* the script of the current or last run
    pc,             \* position of the current run, "idle" between runs
    outcome,        \* how the current or last run ended
    prev,           \* outcome and walker faults of the run before
    faults,         \* failures injected so far
    failedPage,     \* source -> the page at which its walker caught an exception, 0 for none
    raw,            \* source -> const raw = await collect...(page)
    caught,         \* what reached the catch of main in this run
    dbAtStart,      \* collected_ids.json as it was when this run started
    db,             \* const db = loadDB()
    src,            \* index in Sources of the walker that is running
    currentPage,    \* its currentPage
    rawItems,       \* its rawItems
    navigated,      \* source -> the pages page.goto was called for, in order
    walkEnd,        \* source -> why its walker stopped
    sourceResults,  \* sourceResults: source -> records
    totalCount,
    totalNew,
    detailCache,    \* const detailCache = loadDetailCache()
    needDetail,
    di,             \* the index i of the detail loop, from 1
    fetchLog,       \* the ids passed to fetchItemDetail in this run, in order
    fetchThrew,     \* the positions of needDetail whose fetch threw in this run
    fetchTotal,     \* id -> number of fetchItemDetail calls over all runs
    mailBody,       \* the ids listed in the notification sent by this run
    maxPages,       \* getNewItems: its maxPages argument
    hitExisting,    \* getNewItems: let hitExisting
    newItems,       \* getNewItems: const newItems
    results,        \* the single-source scripts: const results
    inputUrls,      \* the selected-URL generator: INPUT_URLS
    batch,          \* the content batch: quotaExceeded, processedCount, skippedItems
                    \* and the history of its calls of generateMent
    call,           \* the last call of a pure function: its argument and result
    loop,           \* the event loop of one run: where main is and the operations in flight
    logFile,        \* auto_log.txt of the unattended collector: its lines
    outputDir,      \* output/: the runs that made a directory auto_<timestamp>
    outbox          \* the messages the collector handed to transporter.sendMail, in order

programVars == <<listing, dbFile, cacheFile, todayListFile, dailyFiles, utcDay, kstAhead,
          run, script, pc, outcome, prev, faults, failedPage, raw, caught, dbAtStart,
          db, src, currentPage,
          rawItems, navigated, walkEnd, sourceResults, totalCount, totalNew,
          detailCache, needDetail, di, fetchLog, fetchThrew, fetchTotal, mailBody,
          maxPages, hitExisting, newItems, results, inputUrls, batch>>

\* The state of the event loop, the files of the unattended collector and
\* the mail transport
auxVars == <<loop, logFile, outputDir, outbox>>

vars == <<programVars, call, auxVars>>

collectVars == <<failedPage, raw, src, rawItems, walkEnd, sourceResults, totalCount, totalNew,
                 detailCache, needDetail, fetchLog, fetchThrew, fetchTotal>>

singleVars == <<maxPages, hitExisting, newItems, results, inputUrls>>

persistentVars == <<dbFile, cacheFile, todayListFile, dailyFiles>>

clockVars == <<utcDay, kstAhead>>

\* new Date(Date.now() + 9 * 3600 * 1000).toISOString().slice(0, 10), as a
\* day number
today == IF kstAhead THEN utcDay + 1 ELSE utcDay

SourceSet == {Sources[k] : k \in 1..Len(Sources)}

NoResults == [s \in {} |-> <<>>]

NoSnapshot == [date |-> 0 - 1, total |-> 0, newCount |-> 0, sources |-> NoResults]

\* Object.values(sourceResults).flat()
RECURSIVE flatFrom(_, _)
flatFrom(sr, k) ==
    IF k > Len(Sources) THEN <<>>
    ELSE (IF Sources[k] \in DOMAIN sr THEN sr[Sources[k]] ELSE <<>>) \o flatFrom(sr, k + 1)

allItemsOf(sr) == flatFrom(sr, 1)

\* Array.prototype.filter
filter(seq, Test(_)) == SelectSeq(seq, Test)

IdsOf(seq) == {seq[k].id : k \in 1..Len(seq)}

\* The seen-stores a behaviour may start from: empty, or holding ids that
\* the single-source scripts (bare ids, { title, collectedAt }) and the
\* collector (prefixed ids, the date) wrote on day Day0 - 1
SeedValue == <<"date", Day0 - 1>>

SeedOf(i) == IF startsWith(i, "PBLN") THEN <<"entry", "seen before", Day0 - 1, 0>> ELSE SeedValue

InitDbs ==
    { [i \in {} |-> SeedValue],
      [i \in {"PBLN_2", "bizinfo_PBLN_2"} |-> SeedOf(i)],
      [i \in {"PBLN_1", "PBLN_2", "PBLN_4"} |-> SeedOf(i)] }

\* The state of the content batch before its loop:  let quotaExceeded =
\* false; let processedCount = 0; const skippedItems = [];  calls and
\* exhausted are the positions of results for which generateMent was called
\* and for which a generative call used up its retries
NoBatch ==
    [quotaExceeded |-> FALSE, processedCount |-> 0, skippedItems |-> <<>>,
     calls |-> <<>>, exhausted |-> <<>>, written |-> <<>>]

\* No function has been called
NoCall == [fn |-> "none", arg |-> <<>>, ret |-> <<>>]

\* No run is on the event loop
NoLoop == [script |-> "none", at |-> 0, waiting |-> FALSE, inFlight |-> {}]

\* Number.prototype.toString() of a non-negative integer
RECURSIVE decimal(_)
decimal(n) ==
    IF n < 10 THEN Char("0123456789", n + 1)
    ELSE decimal(n \div 10) \o Char("0123456789", (n % 10) + 1)

\* new Date().toLocaleDateString('ko-KR') on local day d, all days of the
\* model being days of one month:  2026. 2. 14.
toLocaleDateString(d) == "2026. 2. " \o decimal(d) \o "."

\* new Date().toLocaleString('ko-KR'): the same date, then the time of day
toLocaleString(d) == toLocaleDateString(d) \o " ojeon 9:05:00"

START_MARKER == "=== jadong sujip sijak ==="

END_MARKER == "=== jadong sujip jongryo ==="

\* A line of auto_log.txt as log(msg) appends it on day d; with the text
\* the day it was written on and whether it is the first line of a run
LogLine(d, msg) ==
    [day |-> d, start |-> msg = START_MARKER,
     text |-> "[" \o toLocaleString(d) \o "] " \o msg]

\* auto_log.txt before the first run: a run of an earlier day that found
\* nothing new
InitLog ==
    <<LogLine(2, START_MARKER), LogLine(2, "peiji 1: 1gae jung 0gae singyu"),
      LogLine(2, "singyu gonggo eopseum. jongryohamnida.")>>

Init ==
    /\ listing \in Listings
    /\ dbFile \in InitDbs
    /\ cacheFile = [i \in {} |-> NoDetail]
    /\ todayListFile = NoSnapshot
    /\ dailyFiles = {Day0 - RetentionDays - 1, Day0 - RetentionDays, Day0 - 1}
    /\ utcDay = Day0
    /\ kstAhead \in BOOLEAN
    /\ run = 0
    /\ script = "none"
    /\ pc = "idle"
    /\ outcome = "none"
    /\ prev = [outcome |-> "none", script |-> "none", walkEnd |-> [s \in SourceSet |-> "none"]]
    /\ faults = 0
    /\ failedPage = [s \in SourceSet |-> 0]
    /\ raw = [s \in SourceSet |-> <<>>]
    /\ caught = "none"
    /\ dbAtStart = dbFile
    /\ db = [i \in {} |-> SeedValue]
    /\ src = 1
    /\ currentPage = 1
    /\ rawItems = <<>>
    /\ navigated = [s \in SourceSet |-> <<>>]
    /\ walkEnd = [s \in SourceSet |-> "none"]
    /\ sourceResults = NoResults
    /\ totalCount = 0
    /\ totalNew = 0
    /\ detailCache = [i \in {} |-> NoDetail]
    /\ needDetail = <<>>
    /\ di = 1
    /\ fetchLog = <<>>
    /\ fetchThrew = <<>>
    /\ fetchTotal = [i \in {} |-> 0]
    /\ mailBody = <<>>
    /\ maxPages = 0
    /\ hitExisting = FALSE
    /\ newItems = <<>>
    /\ results = <<>>
    /\ batch = NoBatch
    /\ call = NoCall
    /\ loop = NoLoop
    /\ logFile = InitLog
    /\ outputDir = {}
    /\ outbox = <<>>
    /\ inputUrls = <<>>

\* ------------------------------------------------------------------------
\* collect.js  main
\* ------------------------------------------------------------------------

\* loadDB / loadDetailCache: the parsed file, {} when there is none
\* A loadDB that finds no file, or one it cannot parse
loadDBEmpty == [i \in {} |-> SeedValue]

loadDB == dbFile

loadDetailCache == cacheFile

\* What every script does when it is started: the clock has moved on by at
\* most a day since the run before and the state of the last run is gone
BeginRun(name) ==
    /\ pc = "idle"
    /\ run < MaxRuns
    /\ run' = run + 1
    /\ script' = name
    /\ \E adv \in 0..1 : utcDay' = utcDay + (IF run = 0 THEN 0 ELSE adv)
    /\ kstAhead' = kstAhead
    /\ prev' = [outcome |-> outcome, script |-> script, walkEnd |-> walkEnd]
    /\ dbAtStart' = dbFile
    /\ failedPage' = [s \in SourceSet |-> 0]
    /\ raw' = [s \in SourceSet |-> <<>>]
    /\ src' = 1
    /\ currentPage' = 1
    /\ rawItems' = <<>>
    /\ navigated' = [s \in SourceSet |-> <<>>]
    /\ walkEnd' = [s \in SourceSet |-> "none"]
    /\ sourceResults' = NoResults
    /\ totalCount' = 0
    /\ totalNew' = 0
    /\ detailCache' = [i \in {} |-> NoDetail]
    /\ needDetail' = <<>>
    /\ di' = 1
    /\ fetchLog' = <<>>
    /\ fetchThrew' = <<>>
    /\ mailBody' = <<>>
    /\ hitExisting' = FALSE
    /\ newItems' = <<>>
    /\ results' = <<>>
    /\ batch' = NoBatch

\* A failure may be injected only while the budget lasts
Fault(o) == o # "ok"

FaultOk(o) ==
    /\ Fault(o) => faults < MaxFaults
    /\ faults' = IF Fault(o) THEN faults + 1 ELSE faults

\* main up to the first walker: loadDB, puppeteer.launch, browser.newPage.
\* newPage (or setUserAgent) throwing lands in the catch of main, which
\* goes on to the summary with empty sourceResults.
StartCollect ==
    /\ BeginRun("collect")
    /\ outcome' = "running"
    /\ db' = loadDB
    /\ \E o \in {"ok", "newPageThrows"} :
          /\ FaultOk(o)
          /\ caught' = IF o = "ok" THEN "none" ELSE o
          /\ pc' = IF o = "ok" THEN "walk" ELSE "write"
    /\ UNCHANGED <<listing, call, auxVars, persistentVars, fetchTotal, maxPages, inputUrls>>

\* The page of a listing; past its end the site shows an empty page
PageAt(s, p) ==
    IF p <= Len(listing[s]) THEN listing[s][p] ELSE Page(<<>>, FALSE)

\* The items page.evaluate returns for a listing page; collectSbiz then
\* resolves the javascript: links
itemsOfPage(s, p) ==
    LET its == PageAt(s, p).items
    IN IF s = "sbiz"
       THEN [k \in 1..Len(its) |-> [its[k] EXCEPT !.url = resolveSemasUrl(@)]]
       ELSE its

\* A walker whose loop is not left when page.goto throws
walkerStopGoesOn(s, p, o) ==
    CASE Len(itemsOfPage(s, p)) = 0      -> "empty"
      [] o = "nextThrows"                -> "error"
      [] ~PageAt(s, p).hasNext           -> "noNext"
      [] p + 1 > MaxPagesOf(s)           -> "cap"
      [] OTHER                           -> "more"

\* A walker whose while loop has no page limit
walkerStopNoCap(s, p, o) ==
    CASE o = "gotoThrows"                -> "error"
      [] Len(itemsOfPage(s, p)) = 0      -> "empty"
      [] o = "nextThrows"                -> "error"
      [] ~PageAt(s, p).hasNext           -> "noNext"
      [] OTHER                           -> "more"

\* Why the walker of source s stops after page p, "more" when it goes on
\* to page p + 1: the body of the while loop of collectBizinfo,
\* collectKStartup, collectSbiz and collectSmtech
walkerStop(s, p, o) ==
    CASE o = "gotoThrows"                -> "error"
      [] Len(itemsOfPage(s, p)) = 0      -> "empty"
      [] o = "nextThrows"                -> "error"
      [] ~PageAt(s, p).hasNext           -> "noNext"
      [] p + 1 > MaxPagesOf(s)           -> "cap"
      [] OTHER                           -> "more"

\* Number of records that are new
newCountOf(recs) == Len(filter(recs, LAMBDA r : r.isNew))

\* const needDetail = allItems.filter(item => !detailCache[item.id])
needDetailOf(sr, cache) == filter(allItemsOf(sr), LAMBDA r : r.id \notin DOMAIN cache)

\* One iteration of a walker's loop, with the processItems and the totals
\* of main when the walker returns, and loadDetailCache and needDetail
\* after the last walker.  o: "gotoThrows" is page.goto or the item
\* extraction throwing, "nextThrows" the hasNext evaluation throwing.
WalkPage ==
    /\ pc = "walk"
    /\ script = "collect"
    /\ \E o \in {"ok", "gotoThrows", "nextThrows"} :
        LET s     == Sources[src]
            p     == currentPage
            items == itemsOfPage(s, p)
            got   == IF o = "gotoThrows" THEN rawItems ELSE rawItems \o items
            stop  == walkerStop(s, p, o)
            recs  == processItems(got, s, db)
            sr    == sourceResults @@ (s :> recs)
        IN /\ FaultOk(o)
           /\ o = "nextThrows" => Len(items) > 0
           /\ navigated' = [navigated EXCEPT ![s] = Append(@, p)]
           /\ failedPage' = [failedPage EXCEPT ![s] = IF o = "ok" THEN @ ELSE p]
           /\ IF stop = "more"
              THEN /\ rawItems' = got
                   /\ currentPage' = p + 1
                   /\ UNCHANGED <<src, walkEnd, sourceResults, totalCount, totalNew,
                                  detailCache, needDetail, pc, raw>>
              ELSE /\ rawItems' = <<>>
                   /\ currentPage' = 1
                   /\ walkEnd' = [walkEnd EXCEPT ![s] = stop]
                   /\ raw' = [raw EXCEPT ![s] = got]
                   /\ sourceResults' = sr
                   /\ totalCount' = totalCount + Len(recs)
                   /\ totalNew' = totalNew + newCountOf(recs)
                   /\ IF src < Len(Sources)
                      THEN /\ src' = src + 1
                           /\ UNCHANGED <<detailCache, needDetail, pc>>
                      ELSE /\ src' = src
                           /\ detailCache' = loadDetailCache
                           /\ needDetail' = needDetailOf(sr, loadDetailCache)
                           /\ pc' = "detail"
    /\ UNCHANGED singleVars
    /\ UNCHANGED <<listing, call, auxVars, batch, persistentVars, clockVars, run, script, dbAtStart, outcome,
                   prev, caught, db, di, fetchLog, fetchThrew, fetchTotal, mailBody>>

\* One iteration of the detail loop:
\*   const detail = await fetchItemDetail(page, item.url);
\*   detailCache[item.id] = detail;
FetchDetail ==
    /\ pc = "detail"
    /\ script = "collect"
    /\ di <= Len(needDetail)
    /\ \E o \in {"ok", "throws"} :
        LET item == needDetail[di]
        IN /\ FaultOk(o)
           /\ o = "throws" => Fetchable(item.url)
           /\ detailCache' = (item.id :> fetchItemDetail(item.url, o)) @@ detailCache
           /\ fetchLog' = Append(fetchLog, item.id)
           /\ fetchThrew' = IF o = "throws" THEN Append(fetchThrew, di) ELSE fetchThrew
           /\ fetchTotal' = (item.id :> (IF item.id \in DOMAIN fetchTotal
                                         THEN fetchTotal[item.id] + 1 ELSE 1))
                            @@ fetchTotal
    /\ di' = di + 1
    /\ UNCHANGED singleVars
    /\ UNCHANGED <<listing, call, auxVars, batch, persistentVars, clockVars, run, script, dbAtStart, pc,
                   outcome, prev, failedPage, raw, caught, db, src, currentPage,
                   rawItems, navigated, walkEnd, sourceResults, totalCount, totalNew,
                   needDetail, mailBody>>

\* A save that leaves out the entries without any field
saveDetailCacheNonEmpty(cache) ==
    [i \in {j \in DOMAIN cache : cache[j] # NoDetail} |-> cache[i]]

\* fs.writeFileSync(DETAIL_CACHE_FILE, JSON.stringify(cache), 'utf8')
saveDetailCache(cache) == cache

\* After the detail loop: the details and deadlines are put on the records
\* and the cache is saved.  saveDetailCache throwing lands in the catch of
\* main, which logs it and goes on.
ApplyDetails ==
    /\ pc = "detail"
    /\ script = "collect"
    /\ di > Len(needDetail)
    /\ sourceResults' = [s \in DOMAIN sourceResults |->
                            [k \in 1..Len(sourceResults[s]) |->
                                applyDetail(sourceResults[s][k], detailCache)]]
    /\ \E o \in {"ok", "saveThrows"} :
          /\ FaultOk(o)
          /\ cacheFile' = IF o = "ok" THEN saveDetailCache(detailCache) ELSE cacheFile
          /\ caught' = IF o = "ok" THEN caught ELSE o
    /\ pc' = "write"
    /\ UNCHANGED singleVars
    /\ UNCHANGED <<listing, call, auxVars, batch, dbFile, todayListFile, dailyFiles, clockVars, run, script,
                   dbAtStart, outcome, prev, failedPage, raw, db, src, currentPage,
                   rawItems, navigated, walkEnd, totalCount, totalNew, detailCache,
                   needDetail, di, fetchLog, fetchThrew, fetchTotal, mailBody>>

\* The process is killed while the detail loop is running (a job time-out,
\* a power cut): nothing of main runs any more
Crash ==
    /\ pc = "detail"
    /\ script = "collect"
    /\ FaultOk("killed")
    /\ pc' = "idle"
    /\ outcome' = "crashed"
    /\ UNCHANGED singleVars
    /\ UNCHANGED <<listing, call, auxVars, batch, persistentVars, clockVars, run, script, dbAtStart, prev,
                   failedPage, raw, caught, db, src, currentPage, rawItems, navigated,
                   walkEnd, sourceResults, totalCount, totalNew, detailCache,
                   needDetail, di, fetchLog, fetchThrew, fetchTotal, mailBody>>

\* const saveData = {...}
saveDataOf(sr, count, new) ==
    [date |-> today, total |-> count, newCount |-> new, sources |-> sr]

\* cleanOldDailyFiles: a file is deleted when the UTC midnight of its date
\* lies before the instant seven days ago, which is some time into UTC day
\* utcDay - 7
cleanOldDailyFiles(files) == {d \in files : ~(d <= utcDay - RetentionDays)}

\* A run that does not add its new ids to collected_ids
dbWithNewNone(d, sr) == d

\* collected_ids after  .filter(item => item.isNew).forEach(item => { db[item.id] = today; })
dbWithNew(d, sr) ==
    LET newIds == IdsOf(filter(allItemsOf(sr), LAMBDA r : r.isNew))
    IN [i \in DOMAIN d \cup newIds |-> IF i \in newIds THEN <<"date", today>> ELSE d[i]]

\* main after the finally: the summary, the snapshot files, the clean-up of
\* old daily files and the seen-store, all synchronous.  A write that
\* throws ends main with an unhandled rejection: "snapshotThrows" before
\* anything is written, "dbThrows" at the write of collected_ids.json.
WriteFiles ==
    /\ pc = "write"
    /\ script = "collect"
    /\ \E o \in {"ok", "snapshotThrows", "dbThrows"} :
          /\ FaultOk(o)
          /\ IF o = "snapshotThrows"
             THEN UNCHANGED <<todayListFile, dailyFiles>>
             ELSE /\ todayListFile' = saveDataOf(sourceResults, totalCount, totalNew)
                  /\ dailyFiles' = cleanOldDailyFiles(dailyFiles \cup {today})
          /\ db' = IF o = "snapshotThrows" THEN db ELSE dbWithNew(db, sourceResults)
          /\ dbFile' = IF o = "ok" THEN dbWithNew(db, sourceResults) ELSE dbFile
          /\ IF o # "ok"
             THEN pc' = "idle" /\ outcome' = "failed"
             ELSE IF totalNew = 0
                  THEN pc' = "idle" /\ outcome' = "completed"
                  ELSE pc' = "mail" /\ outcome' = outcome
    /\ UNCHANGED singleVars
    /\ UNCHANGED <<listing, call, auxVars, batch, cacheFile, clockVars, run, script, dbAtStart, prev,
                   failedPage, raw, caught, src, currentPage, rawItems, navigated,
                   walkEnd, sourceResults, totalCount, totalNew, detailCache,
                   needDetail, di, fetchLog, fetchThrew, fetchTotal, mailBody>>

\* A notification that lists every record of the snapshot
emailBodyOfAll(sr) == [k \in 1..Len(allItemsOf(sr)) |-> allItemsOf(sr)[k].id]

\* The ids of the records the notification lists: per source the new
\* records, the recommended ones first
emailBodyOf(sr) == 
    LET new == filter(allItemsOf(sr), LAMBDA r : r.isNew)
    IN [k \in 1..Len(new) |-> new[k].id]

\* transporter.sendMail; a failure is logged and main returns
SendMail ==
    /\ pc = "mail"
    /\ script = "collect"
    /\ \E o \in {"ok", "mailThrows"} :
          /\ FaultOk(o)
          /\ mailBody' = IF o = "ok" THEN emailBodyOf(sourceResults) ELSE <<>>
          /\ outbox' = Append(outbox, [run |-> run, text |-> emailBodyOf(sourceResults),
                                       delivered |-> o = "ok"])
    /\ pc' = "idle"
    /\ outcome' = "completed"
    /\ UNCHANGED singleVars
    /\ UNCHANGED <<listing, call, loop, logFile, outputDir, batch, persistentVars, clockVars, run, script, dbAtStart, prev,
                   failedPage, raw, caught, db, src, currentPage, rawItems, navigated,
                   walkEnd, sourceResults, totalCount, totalNew, detailCache,
                   needDetail, di, fetchLog, fetchThrew, fetchTotal>>

NextCollect ==
    \/ StartCollect
    \/ WalkPage
    \/ FetchDetail
    \/ ApplyDetails
    \/ Crash
    \/ WriteFiles
    \/ SendMail

Spec == Init /\ [][NextCollect]_vars

\* ------------------------------------------------------------------------
\* run-daily.js  getNewItems and main
\* ------------------------------------------------------------------------

\* The maxPages a walk is started with: the default of getNewItems, the
\* argument main passes, and a smaller one that a short listing exceeds
MaxPagesArgs == {2, 5, 10}

\* The title scrapeDetail reads from the detail page of a URL
PageTitle(url) == (CHOOSE i \in ItemPool : i.url = url).title

PageTitleTable == [u \in {i.url : i \in ItemPool} |-> PageTitle(u)]

\* The value { title, collectedAt } a single-source script stores for an id
entryOf(title) == <<"entry", title, utcDay, run>>

\* A test that takes an item without an id for one seen before
isExistingOrNoId(url, d) ==
    extractIdSingleTable[url] = NullId \/ extractIdSingleTable[url] \in DOMAIN d

\* if (id && db[id])
isExisting(url, d) ==
    extractIdSingleTable[url] # NullId /\ extractIdSingleTable[url] \in DOMAIN d

\* A for loop that pushes every item of the page
freshItemsAll(items, d) == items

\* The items of a page that the for loop of getNewItems pushes to newItems
freshItems(items, d) == filter(items, LAMBDA it : ~isExisting(it.url, d))

\* getNewItems without  if (hitExisting && newCount === 0) break
newItemsStopNoEarly(p, o, hit, d, max) ==
    LET items == PageAt("bizinfo", p).items
    IN CASE o = "gotoThrows"                          -> "error"
         [] Len(items) = 0                            -> "empty"
         [] o = "nextThrows"                          -> "error"
         [] ~PageAt("bizinfo", p).hasNext             -> "noNext"
         [] p + 1 > max                               -> "cap"
         [] OTHER                                     -> "more"

\* Why getNewItems stops after page p, "more" when it goes on to page p + 1
newItemsStop(p, o, hit, d, max) ==
    LET items == PageAt("bizinfo", p).items
    IN CASE o = "gotoThrows"                          -> "error"
         [] Len(items) = 0                            -> "empty"
         [] hit /\ Len(freshItems(items, d)) = 0      -> "early"
         [] o = "nextThrows"                          -> "error"
         [] ~PageAt("bizinfo", p).hasNext             -> "noNext"
         [] p + 1 > max                               -> "cap"
         [] OTHER                                     -> "more"

\* hitExisting after the for loop over the items of page p
hitAfter(p, o, hit, d) ==
    LET items == PageAt("bizinfo", p).items
    IN hit \/ (o # "gotoThrows" /\ \E k \in 1..Len(items) : isExisting(items[k].url, d))

\* main up to the first page of getNewItems: launch, newPage, loadDB
StartDaily ==
    /\ BeginRun("daily")
    /\ outcome' = "running"
    /\ caught' = "none"
    /\ maxPages' \in MaxPagesArgs
    /\ db' = loadDB
    /\ pc' = "dailyWalk"
    /\ UNCHANGED <<listing, call, auxVars, persistentVars, fetchTotal, faults, inputUrls>>

\* The lines the unattended collector appends to auto_log.txt in one
\* iteration of getNewItems and, when getNewItems is left, in main: the
\* catch logs the error and main goes on to its last line
autoWalkLines(p, o, stop, found, got) ==
    (IF o # "gotoThrows" /\ stop # "empty"
     THEN <<LogLine(today, "peiji " \o decimal(p) \o ": " \o decimal(found) \o "gae singyu")>>
     ELSE <<>>)
    \o
    (CASE stop = "more"  -> <<>>
       [] stop = "error" -> <<LogLine(today, "oryu: " \o o), LogLine(today, END_MARKER)>>
       [] Len(got) = 0   -> <<LogLine(today, "singyu gonggo eopseum. jongryohamnida.")>>
       [] OTHER          -> <<LogLine(today, "singyu gonggo " \o decimal(Len(got)) \o "geon balgyeon")>>)

\* One iteration of the while loop of getNewItems.  An exception leaves
\* getNewItems and lands in the catch of main, which logs it.  When
\* getNewItems returns, main returns at once if there is no new item; the
\* unattended collector makes its output directory if there is one.
DailyWalk ==
    /\ pc = "dailyWalk"
    /\ \E o \in {"ok", "gotoThrows", "nextThrows"} :
        LET p     == currentPage
            items == PageAt("bizinfo", p).items
            hit   == hitAfter(p, o, hitExisting, db)
            stop  == newItemsStop(p, o, hit, db, maxPages)
            got   == IF o = "gotoThrows" THEN newItems
                     ELSE newItems \o freshItems(items, db)
        IN /\ FaultOk(o)
           /\ o = "nextThrows" => stop = "error"
           /\ navigated' = [navigated EXCEPT !["bizinfo"] = Append(@, p)]
           /\ hitExisting' = hit
           /\ caught' = IF stop = "error" THEN o ELSE caught
           /\ newItems' = got
           /\ walkEnd' = [walkEnd EXCEPT !["bizinfo"] = IF stop = "more" THEN @ ELSE stop]
           /\ currentPage' = IF stop = "more" THEN p + 1 ELSE p
           /\ pc' = CASE stop = "more"  -> "dailyWalk"
                      [] stop = "error" -> "idle"
                      [] Len(got) = 0   -> "idle"
                      [] OTHER          -> "scrape"
           /\ outcome' = CASE stop = "more"  -> outcome
                           [] stop = "error" -> "failed"
                           [] Len(got) = 0   -> "completed"
                           [] OTHER          -> outcome
           /\ logFile' = IF script = "auto"
                         THEN logFile \o autoWalkLines(p, o, stop, Len(freshItems(items, db)), got)
                         ELSE logFile
           /\ outputDir' = IF script = "auto" /\ stop \notin {"more", "error"} /\ Len(got) > 0
                           THEN outputDir \cup {run}
                           ELSE outputDir
    /\ UNCHANGED <<listing, call, loop, outbox, batch, persistentVars, clockVars, run, script, dbAtStart, prev,
                   failedPage, raw, db, src, rawItems, sourceResults, totalCount,
                   totalNew, detailCache, needDetail, di, fetchLog, fetchThrew, fetchTotal,
                   mailBody, maxPages, results, inputUrls>>

\* The seen-store after  results.forEach(item => { if (id) db[id] = {...} })
dbWithResults(d, res) ==
    LET withId == filter(res, LAMBDA r : extractIdSingleTable[r.url] # NullId)
        ids    == {extractIdSingleTable[withId[k].url] : k \in 1..Len(withId)}
        \* the last result of an id is the one that stays
        lastOf(i) == withId[CHOOSE k \in 1..Len(withId) :
                               /\ extractIdSingleTable[withId[k].url] = i
                               /\ \A j \in (k + 1)..Len(withId) :
                                     extractIdSingleTable[withId[j].url] # i]
    IN [i \in DOMAIN d \cup ids |->
           IF i \in ids
           THEN entryOf(lastOf(i).title)
           ELSE d[i]]

\* The lines the unattended collector appends in one iteration of the
\* detail loop
autoScrapeLines(i, n, last, res) ==
    <<LogLine(today, "[" \o decimal(i) \o "/" \o decimal(n) \o "]")>>
    \o (IF last /\ Len(res) = 0 THEN <<LogLine(today, "sujip gyeolgwa eopseum.")>> ELSE <<>>)

\* One iteration of  for (...) { const detail = await scrapeDetail(...) },
\* scrapeDetail returning null when the page cannot be read; after the
\* last one main returns when there is no result
DailyScrape ==
    /\ pc = "scrape"
    /\ di <= Len(newItems)
    /\ \E o \in {"ok", "scrapeNull"} :
        LET item == newItems[di]
            res  == IF o = "ok"
                    THEN Append(results, [title |-> PageTitleTable[item.url],
                                          url |-> item.url, listDate |-> item.date])
                    ELSE results
        IN /\ FaultOk(o)
           /\ results' = res
           /\ caught' = caught
           /\ IF di < Len(newItems)
              THEN di' = di + 1 /\ UNCHANGED <<pc, outcome>>
              ELSE /\ di' = 1
                   /\ pc' = CASE Len(res) = 0     -> "idle"
                              [] script = "batch" -> "batchItem"
                              [] script = "auto"  -> "autoWrite"
                              [] OTHER            -> "ment"
                   /\ outcome' = IF Len(res) = 0 THEN "completed" ELSE outcome
           /\ logFile' = IF script = "auto"
                         THEN logFile \o autoScrapeLines(di, Len(newItems), di = Len(newItems), res)
                         ELSE logFile
    /\ UNCHANGED <<listing, call, loop, outputDir, outbox, batch, persistentVars, clockVars, run, script, dbAtStart, prev,
                   currentPage, navigated, db, mailBody, maxPages, hitExisting,
                   newItems, inputUrls>>
    /\ UNCHANGED collectVars

\* One iteration of the loop that writes the announcement text and the
\* card of a result ("writeThrows": fs.writeFileSync of the text throws and
\* lands in the catch of main).  After the last one the seen-store is read
\* again, extended and saved ("dbThrows": saveDB throws).
DailyMent ==
    /\ pc = "ment"
    /\ di <= Len(results)
    /\ \E o \in {"ok", "writeThrows", "dbThrows"} :
          /\ FaultOk(o)
          /\ o = "dbThrows" => di = Len(results)
          /\ caught' = IF o = "ok" THEN caught ELSE o
          /\ IF o = "ok" /\ di < Len(results)
             THEN di' = di + 1 /\ UNCHANGED <<pc, outcome, dbFile>>
             ELSE /\ di' = di
                  /\ dbFile' = IF o = "ok" THEN dbWithResults(loadDB, results) ELSE dbFile
                  /\ pc' = IF o = "ok" THEN "dailyMail" ELSE "idle"
                  /\ outcome' = IF o = "ok" THEN outcome ELSE "failed"
    /\ UNCHANGED <<listing, call, auxVars, batch, cacheFile, todayListFile, dailyFiles, clockVars, run,
                   script, dbAtStart, prev, currentPage, navigated, db, mailBody,
                   maxPages, hitExisting, newItems, results, inputUrls>>
    /\ UNCHANGED collectVars

\* await sendDailyReport(...); a failure lands in the catch of main
DailyMail ==
    /\ pc = "dailyMail"
    /\ \E o \in {"ok", "mailThrows"} :
          /\ FaultOk(o)
          /\ mailBody' = IF o = "ok" THEN [k \in 1..Len(results) |-> results[k].url]
                         ELSE <<>>
          /\ caught' = IF o = "ok" THEN caught ELSE o
          /\ outcome' = IF o = "ok" THEN "completed" ELSE "failed"
    /\ pc' = "idle"
    /\ UNCHANGED <<listing, call, auxVars, batch, persistentVars, clockVars, run, script, dbAtStart, prev,
                   currentPage, navigated, db, di, maxPages, hitExisting, newItems,
                   results, inputUrls>>
    /\ UNCHANGED collectVars

NextDaily ==
    \/ StartDaily
    \/ DailyWalk
    \/ DailyScrape
    \/ DailyMent
    \/ DailyMail

SpecDaily == Init /\ [][NextDaily]_vars

\* ------------------------------------------------------------------------
\* unnamed/part_000  the unattended collector: alreadyCollectedToday, main
\* ------------------------------------------------------------------------

\* A guard that looks for the last line of a run instead of its first
alreadyFinishedToday(logs, d) ==
    \E k \in 1..Len(logs) :
       /\ includes(logs[k].text, END_MARKER)
       /\ includes(logs[k].text, toLocaleDateString(d))

\* alreadyCollectedToday on the lines of the log, d being the local day:
\* some line holds the start marker and today's date
alreadyCollectedToday(logs, d) ==
    \E k \in 1..Len(logs) :
       /\ includes(logs[k].text, START_MARKER)
       /\ includes(logs[k].text, toLocaleDateString(d))

\* main up to getNewItems: the guard, which ends the run at once, else the
\* start marker, puppeteer.launch and newPage, which are outside the try
\* of main ("launchThrows" ends main with an unhandled rejection), and the
\* loadDB of getNewItems
StartAuto ==
    /\ BeginRun("auto")
    /\ caught' = "none"
    /\ maxPages' = 10
    /\ db' = loadDB
    /\ IF alreadyCollectedToday(logFile, today')
       THEN /\ pc' = "idle"
            /\ outcome' = "skipped"
            /\ UNCHANGED <<logFile, faults>>
       ELSE /\ logFile' = Append(logFile, LogLine(today', START_MARKER))
            /\ \E o \in {"ok", "launchThrows"} :
                  /\ FaultOk(o)
                  /\ pc' = IF o = "ok" THEN "dailyWalk" ELSE "idle"
                  /\ outcome' = IF o = "ok" THEN "running" ELSE "failed"
    /\ UNCHANGED <<listing, call, loop, outputDir, outbox, persistentVars, fetchTotal, inputUrls>>

\* main after the detail loop, all synchronous: the region files and the
\* file of all results ("writeThrows"), the seen-store read again, extended
\* and saved ("dbThrows"); an exception lands in the catch of main, which
\* logs it, and main ends with its last line
AutoWrite ==
    /\ pc = "autoWrite"
    /\ \E o \in {"ok", "writeThrows", "dbThrows"} :
          /\ FaultOk(o)
          /\ caught' = IF o = "ok" THEN caught ELSE o
          /\ dbFile' = IF o = "ok" THEN dbWithResults(loadDB, results) ELSE dbFile
          /\ logFile' = logFile \o
                (IF o = "ok"
                 THEN <<LogLine(today, "wanryo! jeojangwichi: auto_" \o decimal(run))>>
                 ELSE <<LogLine(today, "oryu: " \o o)>>)
                \o <<LogLine(today, END_MARKER)>>
          /\ outcome' = IF o = "ok" THEN "completed" ELSE "failed"
    /\ pc' = "idle"
    /\ UNCHANGED <<listing, call, loop, outputDir, outbox, batch, cacheFile, todayListFile,
                   dailyFiles, clockVars, run, script, dbAtStart, prev, currentPage,
                   navigated, db, di, mailBody, maxPages, hitExisting, newItems,
                   results, inputUrls>>
    /\ UNCHANGED collectVars

NextAuto ==
    \/ StartAuto
    \/ DailyWalk
    \/ DailyScrape
    \/ AutoWrite

SpecAuto == Init /\ [][NextAuto]_vars

\* ------------------------------------------------------------------------
\* unnamed/part_004  main: content for the URLs the operator selected
\* ------------------------------------------------------------------------

\* The TARGET_URLS a run may be given: none, one, several, one without a
\* pblancId the script recognises, and the same URL twice
InputUrlChoices ==
    { <<>>,
      <<B1.url>>,
      <<B2.url, B1.url>>,
      <<B5.url, B2.url>>,
      <<B4.url, B4.url>> }

\* db after  if (id) db[id] = { title: detail.title, collectedAt: ... }
dbWithEntry(d, url, title) ==
    LET id == extractIdSingleTable[url]
    IN IF id = NullId THEN d
       ELSE [i \in DOMAIN d \cup {id} |-> IF i = id THEN entryOf(title) ELSE d[i]]

\* main up to the loop: the exit when there is no URL, launch, newPage, the
\* drive folder of the day ("setupThrows": one of them throws into the
\* catch of main), loadDB
StartSelected ==
    /\ BeginRun("selected")
    /\ inputUrls' \in InputUrlChoices
    /\ \E o \in {"ok", "setupThrows"} :
          /\ FaultOk(o)
          /\ o = "setupThrows" => Len(inputUrls') > 0
          /\ caught' = IF o = "ok" THEN "none" ELSE o
          /\ db' = IF o = "ok" /\ Len(inputUrls') > 0 THEN loadDB ELSE db
          /\ pc' = IF o = "ok" /\ Len(inputUrls') > 0 THEN "select" ELSE "idle"
          /\ outcome' = IF o = "ok" /\ Len(inputUrls') > 0 THEN "running" ELSE "failed"
    /\ UNCHANGED <<listing, call, auxVars, persistentVars, fetchTotal, maxPages>>

\* One iteration of the loop over INPUT_URLS.  "scrapeNull": scrapeDetail
\* returns null and the URL is skipped.  "generateThrows": generateContent
\* (or a file write) throws into the catch of main, and saveDB is not
\* reached.  After the last iteration saveDB(db) follows ("dbThrows": it
\* throws).
SelectedItem ==
    /\ pc = "select"
    /\ di <= Len(inputUrls)
    /\ \E o \in {"ok", "scrapeNull", "generateThrows", "dbThrows"} :
        LET url   == inputUrls[di]
            d     == IF o \in {"ok", "dbThrows"}
                     THEN dbWithEntry(db, url, PageTitleTable[url]) ELSE db
            last  == di = Len(inputUrls)
            saved == last /\ o \in {"ok", "scrapeNull"}
        IN /\ FaultOk(o)
           /\ o = "dbThrows" => last
           /\ caught' = IF o \in {"generateThrows", "dbThrows"} THEN o ELSE caught
           /\ db' = d
           /\ results' = IF o \in {"ok", "dbThrows"}
                         THEN Append(results, [title |-> PageTitleTable[url], url |-> url,
                                               listDate |-> ""])
                         ELSE results
           /\ dbFile' = IF saved THEN d ELSE dbFile
           /\ di' = IF last \/ o = "generateThrows" THEN di ELSE di + 1
           /\ pc' = CASE o \in {"generateThrows", "dbThrows"} -> "idle"
                      [] last                                   -> "selectedMail"
                      [] OTHER                                  -> "select"
           /\ outcome' = IF o \in {"generateThrows", "dbThrows"} THEN "failed" ELSE outcome
    /\ UNCHANGED <<listing, call, auxVars, batch, cacheFile, todayListFile, dailyFiles, clockVars, run,
                   script, dbAtStart, prev, currentPage, navigated, mailBody, maxPages,
                   hitExisting, newItems, inputUrls>>
    /\ UNCHANGED collectVars

\* await transporter.sendMail(...); a failure lands in the catch of main
SelectedMail ==
    /\ pc = "selectedMail"
    /\ \E o \in {"ok", "mailThrows"} :
          /\ FaultOk(o)
          /\ mailBody' = IF o = "ok" THEN [k \in 1..Len(results) |-> results[k].url]
                         ELSE <<>>
          /\ caught' = IF o = "ok" THEN caught ELSE o
          /\ outcome' = IF o = "ok" THEN "completed" ELSE "failed"
    /\ pc' = "idle"
    /\ UNCHANGED <<listing, call, auxVars, batch, persistentVars, clockVars, run, script, dbAtStart, prev,
                   currentPage, navigated, db, di, maxPages, hitExisting, newItems,
                   results, inputUrls>>
    /\ UNCHANGED collectVars

NextSelected ==
    \/ StartSelected
    \/ SelectedItem
    \/ SelectedMail

\* The seen-store file is shared: the selected-URL generator runs between
\* runs of the daily batch
NextSingle ==
    \/ NextDaily
    \/ NextSelected

SpecSingle == Init /\ [][NextSingle]_vars

\* The collector and the daily batch, the two kinds of walker
NextWalkers ==
    \/ NextCollect
    \/ NextDaily

SpecWalkers == Init /\ [][NextWalkers]_vars

\* WalkPage can be taken exactly when a walker of the collector is in its
\* loop: the outcome "ok" needs no fault budget and appends to navigated
WalkPageEnabled == pc = "walk" /\ script = "collect"

\* Every await of a walker's loop body settles (page.goto has a timeout of
\* 30 s), so a walker that can make its next iteration makes it: weak
\* fairness of WalkPage, with its enabling condition written out, and of
\* DailyWalk
FairWalk ==
    /\ []<>(~WalkPageEnabled) \/ []<><<WalkPage>>_vars
    /\ WF_vars(DailyWalk)

SpecWalkersFair == SpecWalkers /\ FairWalk

\* ========================================================================
\* part_002: geminiCallWithRetry
\* ========================================================================

\* const delays = [60000, 120000, 600000]
delays == <<60000, 120000, 600000>>

\* What one await fn() does: it returns, or it throws an error e with
\* e.message
Returns == [ok |-> TRUE, message |-> ""]

Throws(msg) == [ok |-> FALSE, message |-> msg]

\* The outcomes of an attempt: a result, the rate-limit answers of the API
\* and other failures, one of them without a message
AttemptPool ==
    { Returns,
      Throws("[429 Too Many Requests] Resource has been exhausted"),
      Throws("You exceeded your current quota"),
      Throws("fetch failed"),
      Throws("") }

\* e.message && (e.message.includes('429') || e.message.includes('quota')
\*               || e.message.includes('Too Many'))
is429(e) ==
    /\ e.message # ""
    /\ \/ includes(e.message, "429")
       \/ includes(e.message, "quota")
       \/ includes(e.message, "Too Many")

\* The for loop from  attempt  on; outs[attempt + 1] is what fn() does at
\* that attempt, waits the time-outs awaited so far.  thrown is the error
\* that leaves the function.
RECURSIVE retryFrom(_, _, _)
retryFrom(outs, attempt, waits) ==
    IF attempt > Len(delays)
    THEN [result |-> "undefined", thrown |-> "", isQuotaExceeded |-> FALSE,
          attempts |-> attempt, waits |-> waits]
    ELSE LET e == outs[attempt + 1]
         IN IF e.ok
            THEN [result |-> "returned", thrown |-> "", isQuotaExceeded |-> FALSE,
                  attempts |-> attempt + 1, waits |-> waits]
            ELSE IF is429(e) /\ attempt < Len(delays)
            THEN retryFrom(outs, attempt + 1, Append(waits, delays[attempt + 1]))
            ELSE IF is429(e)
            THEN [result |-> "thrown", thrown |-> "QUOTA_EXCEEDED",
                  isQuotaExceeded |-> TRUE,
                  attempts |-> attempt + 1, waits |-> waits]
            ELSE [result |-> "thrown", thrown |-> e.message, isQuotaExceeded |-> FALSE,
                  attempts |-> attempt + 1, waits |-> waits]

\* A wrapper that gives up at its third attempt
geminiCallGivingUp(outs) ==
    retryFrom([n \in 1..Len(outs) |-> IF n = Len(delays) /\ ~outs[n].ok
                                      THEN Throws("gave up") ELSE outs[n]],
              0, <<>>)

geminiCallWithRetry(outs) == retryFrom(outs, 0, <<>>)

\* What fn does over the attempts the loop can make
AttemptSeqs == [1..(Len(delays) + 1) -> AttemptPool]

\* One call of geminiCallWithRetry on a function of any behaviour
CallRetry ==
    /\ call = NoCall
    /\ \E outs \in AttemptSeqs :
          call' = [fn |-> "geminiCallWithRetry", arg |-> outs,
                   ret |-> geminiCallWithRetry(outs)]
    /\ UNCHANGED <<programVars, auxVars>>

\* ========================================================================
\* part_002: the daily content batch
\* ========================================================================

\* How the generative API answers the attempts of one call: at once, after
\* one rate-limit error, never within the retries, or with another failure
AlwaysReturns == [n \in 1..(Len(delays) + 1) |-> Returns]

LimitedOnce ==
    [n \in 1..(Len(delays) + 1) |->
        IF n = 1 THEN Throws("[429 Too Many Requests] Resource has been exhausted")
        ELSE Returns]

RateLimited ==
    [n \in 1..(Len(delays) + 1) |-> Throws("You exceeded your current quota")]

Broken == [n \in 1..(Len(delays) + 1) |-> Throws("fetch failed")]

GeminiBehaviours == {AlwaysReturns, LimitedOnce, RateLimited, Broken}

\* generateMent for an item without HWP viewer: the draft call and the
\* review call, both through geminiCallWithRetry and both inside the try of
\* the function, whose catch logs the error and returns the fall-back
\* texts.  threw: an error leaves the function; exhausted: one of its
\* calls ended with QUOTA_EXCEEDED.
generateMent(draft, review) ==
    LET d      == geminiCallWithRetry(draft)
        r      == geminiCallWithRetry(review)
        failed == d.result = "thrown" \/ r.result = "thrown"
    IN [threw |-> FALSE, isQuotaExceeded |-> FALSE, isFatal |-> FALSE,
        content |-> IF failed THEN "fallback" ELSE "generated",
        exhausted |-> \/ d.isQuotaExceeded
                      \/ (d.result = "returned" /\ r.isQuotaExceeded)]

\* main up to the first page of getNewItems(page, 15)
StartBatch ==
    /\ BeginRun("batch")
    /\ outcome' = "running"
    /\ caught' = "none"
    /\ maxPages' = 15
    /\ db' = loadDB
    /\ pc' = "dailyWalk"
    /\ UNCHANGED <<listing, call, auxVars, persistentVars, fetchTotal, faults, inputUrls>>

\* One iteration of the loop over results: the skip when quotaExceeded is
\* set, generateMent with the handler of main around it, the four text
\* files ("writeThrows": fs.writeFileSync throws and lands in the catch of
\* main) and processedCount++.
BatchItem ==
    /\ pc = "batchItem"
    /\ script = "batch"
    /\ di <= Len(results)
    /\ LET item   == results[di]
           goesOn == /\ di' = IF di < Len(results) THEN di + 1 ELSE di
                     /\ pc' = IF di < Len(results) THEN pc ELSE "batchDrive"
                     /\ UNCHANGED <<outcome, caught>>
           stops(why) == /\ di' = di
                         /\ pc' = "idle"
                         /\ outcome' = "failed"
                         /\ caught' = why
       IN IF batch.quotaExceeded
          THEN /\ batch' = [batch EXCEPT !.skippedItems = Append(@, item.url)]
               /\ faults' = faults
               /\ goesOn
          ELSE \E draft \in GeminiBehaviours, review \in GeminiBehaviours,
                  o \in {"ok", "writeThrows"} :
                 LET g      == generateMent(draft, review)
                     called == [batch EXCEPT
                                  !.calls = Append(@, di),
                                  !.exhausted = IF g.exhausted THEN Append(@, di) ELSE @]
                 IN /\ FaultOk(IF draft = AlwaysReturns /\ review = AlwaysReturns
                               THEN o ELSE "gemini")
                    /\ (draft # AlwaysReturns \/ review # AlwaysReturns) => o = "ok"
                    /\ IF g.threw /\ g.isQuotaExceeded
                       THEN /\ batch' = [called EXCEPT
                                           !.quotaExceeded = TRUE,
                                           !.skippedItems = Append(@, item.url)]
                            /\ goesOn
                       ELSE IF g.threw /\ g.isFatal
                       THEN batch' = called /\ stops("fatal")
                       ELSE IF o = "writeThrows"
                       THEN batch' = called /\ stops(o)
                       ELSE /\ batch' = [called EXCEPT
                                           !.written = Append(@, item.url),
                                           !.processedCount = @ + 1]
                            /\ goesOn
    /\ UNCHANGED <<listing, call, auxVars, persistentVars, clockVars, run, script, dbAtStart, prev,
                   currentPage, navigated, db, mailBody, maxPages, hitExisting,
                   newItems, results, inputUrls>>
    /\ UNCHANGED collectVars

\* const processedItems = quotaExceeded
\*    ? results.filter(item => !skippedItems.some(s => s.url === item.url)) : results
processedItems(res, b) ==
    IF b.quotaExceeded
    THEN filter(res, LAMBDA r : \A k \in 1..Len(b.skippedItems) : b.skippedItems[k] # r.url)
    ELSE res

\* After the loop: the upload to the drive ("driveThrows": the folder of
\* the day cannot be made, which lands in the catch of main), then the
\* seen-store is read again, extended with processedItems and saved
\* ("dbThrows": saveDB throws).
BatchFinish ==
    /\ pc = "batchDrive"
    /\ script = "batch"
    /\ \E o \in {"ok", "driveThrows", "dbThrows"} :
          /\ FaultOk(o)
          /\ caught' = IF o = "ok" THEN caught ELSE o
          /\ dbFile' = IF o = "ok"
                       THEN dbWithResults(loadDB, processedItems(results, batch))
                       ELSE dbFile
          /\ pc' = IF o = "ok" THEN "batchMail" ELSE "idle"
          /\ outcome' = IF o = "ok" THEN outcome ELSE "failed"
    /\ UNCHANGED <<listing, call, auxVars, batch, cacheFile, todayListFile, dailyFiles, clockVars, run,
                   script, dbAtStart, prev, currentPage, navigated, db, di, mailBody,
                   maxPages, hitExisting, newItems, results, inputUrls>>
    /\ UNCHANGED collectVars

\* transporter.sendMail with the processed items and, when quotaExceeded is
\* set, the list of the skipped ones; a failure lands in the catch of main
BatchMail ==
    /\ pc = "batchMail"
    /\ script = "batch"
    /\ \E o \in {"ok", "mailThrows"} :
          /\ FaultOk(o)
          /\ mailBody' = IF o # "ok" THEN <<>>
                         ELSE batch.written \o
                              (IF batch.quotaExceeded THEN batch.skippedItems ELSE <<>>)
          /\ caught' = IF o = "ok" THEN caught ELSE o
          /\ outcome' = IF o = "ok" THEN "completed" ELSE "failed"
    /\ pc' = "idle"
    /\ UNCHANGED <<listing, call, auxVars, batch, persistentVars, clockVars, run, script, dbAtStart, prev,
                   currentPage, navigated, db, di, maxPages, hitExisting, newItems,
                   results, inputUrls>>
    /\ UNCHANGED collectVars

NextBatch ==
    \/ StartBatch
    \/ DailyWalk
    \/ DailyScrape
    \/ BatchItem
    \/ BatchFinish
    \/ BatchMail

SpecBatch == Init /\ [][NextBatch]_vars

\* ========================================================================
\* collect.js fetchItemDetail: the field extractor run inside the page
\* ========================================================================

\* FIELDS, the Hangul labels in Latin transcription (jiwon daesang = 지원 대상)
FIELDS ==
    [eligibility |-> <<"jiwondaesang", "jiwon daesang", "sincheongjagyeok",
                       "sincheong jagyeok", "chamyeodaesang", "chamyeo daesang",
                       "jiwonjagyeok", "jiwon jagyeok", "jeopsujagyeok",
                       "daesanggieop", "jiwondaesanggieop">>,
     content     |-> <<"jiwonnaeyong", "jiwon naeyong", "saeopnaeyong",
                       "saeop naeyong", "jiwonsahang", "jiwon sahang",
                       "jiwon hangmok", "naeyong", "gonggonaeyong", "saeopgaeyo">>,
     period      |-> <<"sincheonggigan", "sincheong gigan", "jeopsugigan",
                       "jeopsu gigan", "mojipgigan", "mojip gigan", "gongmogigan",
                       "saeopgigan", "saeop gigan", "sincheongiljeong", "gonggogigan">>,
     amount      |-> <<"jiwongyumo", "jiwon gyumo", "jiwongeumaek", "jiwon geumaek",
                       "jiwonhando", "jiwonnaeyeok">>]

\* s.replace(/\s/g, '')
RECURSIVE stripSpaces(_)
stripSpaces(s) ==
    IF Len(s) = 0 THEN s
    ELSE IF Char(s, 1) \in ClsSpace THEN stripSpaces(Tail(s))
         ELSE Char(s, 1) \o stripSpaces(Tail(s))

\* (t || '').replace(/\s{2,}/g, ' ').replace(/\n+/g, ' ').trim().slice(0, 300)
cleanText(t) ==
    LET c == trim(collapseSpaces(t))
    IN IF Len(c) > 300 THEN SubSeq(c, 1, 300) ELSE c

\* A document: the rows of its table, each a sequence of th and td cells;
\* its dt elements with the text of the dd that follows ("" when none
\* does); its label-like elements with the text of the next sibling
Cell(tag, text) == [tag |-> tag, text |-> text]

\* The first element of a sequence of texts that is not empty
RECURSIVE firstValue(_)
firstValue(vs) ==
    IF Len(vs) = 0 THEN "" ELSE IF Head(vs) # "" THEN Head(vs) ELSE firstValue(Tail(vs))

\* t.length > 2 ? t : nothing
accepted(t) == IF Len(t) > 2 THEN t ELSE ""

\* tr.querySelector('td'): row r exists and has a td
hasTd(rows, r) == r \in 1..Len(rows) /\ \E j \in 1..Len(rows[r]) : rows[r][j].tag = "TD"

\* The text of the first td of a row, "" when there is none
firstTd(rows, r) ==
    IF hasTd(rows, r)
    THEN rows[r][Least({j \in 1..Len(rows[r]) : rows[r][j].tag = "TD"})].text
    ELSE ""

\* What getThTdValue finds at the th in cell c of row r: the td after the
\* th cells that follow it, else the first td of its row or of the next row
valueOfTh(rows, r, c) ==
    LET after == {j \in (c + 1)..Len(rows[r]) : rows[r][j].tag # "TH"}
        sib   == IF after = {} THEN "" ELSE rows[r][Least(after)].text
        td    == IF hasTd(rows, r) THEN firstTd(rows, r) ELSE firstTd(rows, r + 1)
    IN firstValue(<<accepted(cleanText(sib)), accepted(cleanText(td))>>)

\* getThTdValue: the th elements in document order
getThTdValue(keyClean, doc) ==
    LET rows == doc.rows
        at(r) == [c \in 1..Len(rows[r]) |->
                     IF rows[r][c].tag = "TH"
                        /\ includes(stripSpaces(rows[r][c].text), keyClean)
                     THEN valueOfTh(rows, r, c) ELSE ""]
    IN firstValue([r \in 1..Len(rows) |-> firstValue(at(r))])

\* Pattern 2: a row of two or more td, the first the label, and the row of
\* four td with a second label in the third
tdTdValue(kc, doc) ==
    LET rows == doc.rows
        tds(r) == SelectSeq(rows[r], LAMBDA c : c.tag = "TD")
        at(r) == IF Len(tds(r)) < 2 THEN ""
                 ELSE firstValue(<<
                        IF includes(stripSpaces(tds(r)[1].text), kc)
                        THEN accepted(cleanText(tds(r)[2].text)) ELSE "",
                        IF Len(tds(r)) = 4 /\ includes(stripSpaces(tds(r)[3].text), kc)
                        THEN accepted(cleanText(tds(r)[4].text)) ELSE "">>)
    IN firstValue([r \in 1..Len(rows) |-> at(r)])

\* Pattern 3: a dt and the dd after it
dtDdValue(kc, doc) ==
    firstValue([n \in 1..Len(doc.dts) |->
                   IF includes(stripSpaces(doc.dts[n].dt), kc)
                   THEN accepted(cleanText(doc.dts[n].dd)) ELSE ""])

\* Pattern 4: an element of a label-like class and its next sibling
labelValue(kc, doc) ==
    firstValue([n \in 1..Len(doc.labels) |->
                   LET t == cleanText(doc.labels[n].sib)
                   IN IF includes(stripSpaces(doc.labels[n].el), kc) /\ Len(t) < 500
                      THEN accepted(t) ELSE ""])

\* The four patterns for one key, in the order of the loop body
patternValues(key, doc) ==
    LET kc == stripSpaces(key)
    IN <<getThTdValue(kc, doc), tdTdValue(kc, doc), dtDdValue(kc, doc), labelValue(kc, doc)>>

\* extractValue: for (const key of keys) { pattern 1 .. pattern 4 }
extractValue(keys, doc) ==
    firstValue([k \in 1..Len(keys) |-> firstValue(patternValues(keys[k], doc))])

\* The documents the extractor is applied to: a header row or none, a plain
\* row or none, in either order, a definition pair or none, a labelled
\* element or none
ThRowPool ==
    { <<Cell("TH", "jiwon daesang"), Cell("TD", "Founders under 39")>>,
      <<Cell("TH", "sincheongjagyeok"), Cell("TD", "SMEs in Seoul")>>,
      <<Cell("TH", "naeyong"), Cell("TD", "-")>>,
      <<Cell("TH", "jiwon daesang"), Cell("TD", "HDEU")>>,
      <<Cell("TH", "sincheonggigan"), Cell("TH", "jiwongyumo"),
        Cell("TD", "2026.03.01 ~  2026.03.31")>>,
      <<Cell("TH", "jiwon naeyong")>> }

TdRowPool ==
    { <<Cell("TD", "jiwondaesang"), Cell("TD", "Small shops")>>,
      <<Cell("TD", "saeopgaeyo"), Cell("TD", "Loans"),
        Cell("TD", "jiwon geumaek"), Cell("TD", "100 million won")>>,
      <<Cell("TD", "gonggogigan"), Cell("TD", " 2026-04-01 ")>> }

DtPool ==
    { [dt |-> "jiwondaesanggieop", dd |-> "Anyone over 19"],
      [dt |-> "jiwonnaeyong", dd |-> ""] }

LabelPool ==
    { [el |-> "jiwon sahang", sib |-> "Consulting"],
      [el |-> "mojip gigan", sib |-> "until the budget is used up"] }

DocPool ==
    { [rows |-> th \o td, dts |-> dt, labels |-> lb] :
         th \in {<<>>} \cup {<<r>> : r \in ThRowPool},
         td \in {<<>>} \cup {<<r>> : r \in TdRowPool},
         dt \in {<<>>} \cup {<<d>> : d \in DtPool},
         lb \in {<<>>} \cup {<<l>> : l \in LabelPool} }
    \cup
    { [rows |-> <<td, th>>, dts |-> <<>>, labels |-> <<>>] :
         th \in ThRowPool, td \in TdRowPool }

\* The value of a field after fetchItemDetail and the clean-up of main:
\*   const val = extractValue(keys); if (val) result[field] = val;
\*   if (v && !JUNK_VALUES.has(v.trim()) && v.trim().length > 3) cleaned[k] = v;
\* "" when cleaned has no such field
fieldValue(field, doc) ==
    LET val     == extractValue(FIELDS[field], doc)
        result  == IF val # "" THEN (field :> val) ELSE NoDetail
        cleaned == cleanedDetail(result)
    IN IF field \in DOMAIN cleaned THEN cleaned[field] ELSE ""

\* One field of one page, from the extraction to the record
CallField ==
    /\ call = NoCall
    /\ \E field \in DOMAIN FIELDS, doc \in DocPool :
          call' = [fn |-> "fieldValue", arg |-> <<field, doc>>,
                   ret |-> fieldValue(field, doc)]
    /\ UNCHANGED <<programVars, auxVars>>

\* One call of extractValue for a field on a document
CallExtract ==
    /\ call = NoCall
    /\ \E field \in DOMAIN FIELDS, doc \in DocPool :
          call' = [fn |-> "extractValue", arg |-> <<field, doc>>,
                   ret |-> extractValue(FIELDS[field], doc)]
    /\ UNCHANGED <<programVars, auxVars>>

\* ========================================================================
\* The functions called on their own
\* ========================================================================

\* The strings extractDeadlineFromPeriod is applied to: those of the
\* modelled sites, and strings with no date, one date, several dates, one-
\* digit months and days, and a date that begins inside another one
DeadlineInputs ==
    PeriodPool \cup
    { "2026.3.5", "2026-03-24", "until the budget is used up", "25.03.2026",
      "2026.03.2027.04.05", "12026.1.2-2026.11.30 18:00", "2026.13",
      "2026.1.15~2026.2.1 / 2026. 3.  9", "2026-12-01 ~ 2027-1-31" }

\* The URLs extractId is applied to: those of the modelled sites, and URLs
\* that match several patterns, one pattern or none; of the latter the
\* empty string, strings whose hash is positive, negative and -2^31
\* ("polygenelubricants")
IdUrls ==
    UrlPool \cup
    { "https://x/view.do?seq=12&pblancId=PBLN_9",
      "https://x/view.do?no=7&bbsSeq=8",
      "https://x/list?pageIndex=2&x=1&id=44&seq=5",
      "https://x/y?biz_no=3&ancmId=A_1",
      "https://x/y?bbsSeq=21",
      "javascript:goDetail('77')",
      "https://x/plain", "", "a", "/list?page=2", "polygenelubricants" }

\* getCategory: the keywords of its six tests in Latin transcription
\* (gyoyuk = 교육), each with the category it returns
CategoryGroups == <<
    [category |-> "changeopgyoyuk",
     keywords |-> {"gyoyuk", "gangjwa", "akademi", "yeonsu", "hullyeon", "gangui",
                   "buteukaempeu", "kaempeu"}],
    [category |-> "keonseolting/mentoring",
     keywords |-> {"mento", "keonseolting", "koching", "jamun", "jindan", "sangdam"}],
    [category |-> "geullobeol",
     keywords |-> {"geullobeol", "haeoe", "suchul", "gukje", "muyeok"}],
    [category |-> "siseoljegong",
     keywords |-> {"gonggan", "siseol", "ipju", "samusil", "senteo", "gongyuopiseu"}],
    [category |-> "jageumjiwon",
     keywords |-> {"tuja", "yungja", "daechul", "bojeung", "peondeu", "jageum",
                   "jiwongeum", "bojogeum", "R&D", "yeongugaebal"}],
    [category |-> "pallo/maketing",
     keywords |-> {"pallo", "maketing", "hongbo", "jeonsi", "bangnamhoe", "yutong"}] >>

\* return '사업화'
DefaultCategory == "saeophwa"

\* title.includes(kw) || ... for the keywords of test n
hasKeyword(title, n) == \E kw \in CategoryGroups[n].keywords : includes(title, kw)

\* A classifier in which the last test that holds decides
getCategoryLast(title) ==
    IF      hasKeyword(title, 6) THEN CategoryGroups[6].category
    ELSE IF hasKeyword(title, 5) THEN CategoryGroups[5].category
    ELSE IF hasKeyword(title, 4) THEN CategoryGroups[4].category
    ELSE IF hasKeyword(title, 3) THEN CategoryGroups[3].category
    ELSE IF hasKeyword(title, 2) THEN CategoryGroups[2].category
    ELSE IF hasKeyword(title, 1) THEN CategoryGroups[1].category
    ELSE DefaultCategory

getCategory(title) ==
    IF      hasKeyword(title, 1) THEN CategoryGroups[1].category
    ELSE IF hasKeyword(title, 2) THEN CategoryGroups[2].category
    ELSE IF hasKeyword(title, 3) THEN CategoryGroups[3].category
    ELSE IF hasKeyword(title, 4) THEN CategoryGroups[4].category
    ELSE IF hasKeyword(title, 5) THEN CategoryGroups[5].category
    ELSE IF hasKeyword(title, 6) THEN CategoryGroups[6].category
    ELSE DefaultCategory

\* The titles getCategory is applied to: those of the modelled sites, and
\* titles with keywords of no, one and several tests in any order
CategoryTitles ==
    TitlePool \cup
    { "", "changeop saeophwa jiwon", "yeonsu", "suchul maketing gyoyuk",
      "haeoe jeonsi bangnamhoe", "cheongnyeon changeop senteo ipju",
      "R&D jageum keonseolting", "sosanggongin yungja", "onrain pallo gaecheok",
      "jiwongeum hongbo", "senteo tuja", "muyeok sangdam kaempeu" }

\* One call of getCategory
CallCategory ==
    /\ call = NoCall
    /\ \E title \in CategoryTitles :
          call' = [fn |-> "getCategory", arg |-> title, ret |-> getCategory(title)]
    /\ UNCHANGED <<programVars, auxVars>>

\* One call of extractId
CallExtractId ==
    /\ call = NoCall
    /\ \E url \in IdUrls :
          call' = [fn |-> "extractId", arg |-> url, ret |-> extractId(url)]
    /\ UNCHANGED <<programVars, auxVars>>

\* One call of extractDeadlineFromPeriod
CallDeadline ==
    /\ call = NoCall
    /\ \E p \in DeadlineInputs :
          call' = [fn |-> "extractDeadlineFromPeriod", arg |-> p,
                   ret |-> extractDeadlineFromPeriod(p)]
    /\ UNCHANGED <<programVars, auxVars>>

\* getRegionCategory: the names of its seventeen tests in Latin transcription
\* (seoul = 서울), each with the region it returns
RegionGroups == <<
    [region |-> "seoul",     names |-> {"seoul"}],
    [region |-> "gyeonggi",  names |-> {"gyeonggi", "suwon", "seongnam", "goyang",
                                        "yongin", "bucheon"}],
    [region |-> "incheon",   names |-> {"incheon"}],
    [region |-> "busan",     names |-> {"busan"}],
    [region |-> "daegu",     names |-> {"daegu"}],
    [region |-> "daejeon",   names |-> {"daejeon"}],
    [region |-> "gwangju",   names |-> {"gwangju"}],
    [region |-> "ulsan",     names |-> {"ulsan"}],
    [region |-> "sejong",    names |-> {"sejong"}],
    [region |-> "gangwon",   names |-> {"gangwon", "chuncheon", "wonju"}],
    [region |-> "chungbuk",  names |-> {"chungbuk", "cheongju"}],
    [region |-> "chungnam",  names |-> {"chungnam", "cheonan", "asan"}],
    [region |-> "jeonbuk",   names |-> {"jeonbuk", "jeonju"}],
    [region |-> "jeonnam",   names |-> {"jeonnam", "mokpo", "yeosu"}],
    [region |-> "gyeongbuk", names |-> {"gyeongbuk", "pohang", "gumi"}],
    [region |-> "gyeongnam", names |-> {"gyeongnam", "changwon", "jinju"}],
    [region |-> "jeju",      names |-> {"jeju"}] >>

\* return '전국'
DefaultRegion == "jeonguk"

\* The tests of getRegionCategory that hold for the title
regionTests(title) ==
    {n \in 1..Len(RegionGroups) : \E name \in RegionGroups[n].names : includes(title, name)}

\* The chain of if statements: the first test that holds decides
getRegionCategory(title) ==
    IF regionTests(title) = {} THEN DefaultRegion
    ELSE RegionGroups[Least(regionTests(title))].region

\* The two region fields processItems gives a record; no listing walker sets
\* item.region, so that  item.region || '전국'  is the default
regionFields(item) ==
    [region         |-> DefaultRegion,
     regionCategory |-> getRegionCategory(item.title)]

\* [가-힣]: the Hangul syllables, lower-case letters in the transcription
ClsHangul == Lowers

\* title.match(/^\[([hangul]+)\]/): the captured token, NoMatch when the title
\* does not start with one
bracketToken(title) ==
    LET e == RunEnd(title, 2, ClsHangul)
    IN IF /\ startsWith(title, "[")
          /\ e >= 2
          /\ StartsAt(title, "]", e + 1)
       THEN SubSeq(title, 2, e)
       ELSE NoMatch

\* const regions = [...] of extractRegion, in its order
regions == <<"seoul", "busan", "daegu", "incheon", "gwangju", "daejeon", "ulsan",
             "sejong", "gyeonggi", "gangwon", "chungbuk", "chungnam", "jeonbuk",
             "jeonnam", "gyeongbuk", "gyeongnam", "jeju">>

\* d.label.includes('지자체') || d.label.includes('소관부처')
isJurisdiction(d) == includes(d.label, "jijache") \/ includes(d.label, "sogwanbucheo")

\* extractRegion of the single-source scripts: the bracket token of the
\* title, else the first name of regions in the value of the first
\* jurisdiction detail, else the default
extractRegion(title, details) ==
    LET found == {k \in 1..Len(details) : isJurisdiction(details[k])}
        inJza == IF found = {} THEN {}
                 ELSE {r \in 1..Len(regions) :
                          includes(details[Least(found)].value, regions[r])}
    IN IF bracketToken(title) # NoMatch THEN bracketToken(title)
       ELSE IF inJza # {} THEN regions[Least(inJza)]
       ELSE DefaultRegion

\* The titles the region functions are applied to: those of the modelled
\* sites, and titles with and without a leading bracket token and with no,
\* one and several region names
RegionTitles ==
    TitlePool \cup
    { "", "[seoul] changeop jiwon", "[jeju] seoul bangnamhoe chamga",
      "[chungcheongbukdo] suchul baucheo", "busan changeop akademi",
      "jeonju daegu gongdong jiwon", "[junggibu] R&D jiwon", "[2026] suwon senteo",
      "sosanggongin yungja", "[gyeongnam]changwon ipju", "seoul [busan] jiwon" }

\* The detail lists of the pages: none, one without and ones with a
\* jurisdiction field
RegionDetails ==
    { <<>>,
      <<[label |-> "saeopgaeyo", value |-> "busan jiyeok changeop"]>>,
      <<[label |-> "sogwanbucheo/jijache", value |-> "daegugwangyeoksi"]>>,
      <<[label |-> "saeopgaeyo", value |-> "seoul"],
        [label |-> "jijache", value |-> "gyeonggido busan"]>>,
      <<[label |-> "sogwanbucheo", value |-> "jungsobencheogieopbu"]>> }

\* The region fields of one record of processItems
CallRegionCategory ==
    /\ call = NoCall
    /\ \E title \in RegionTitles :
          call' = [fn |-> "getRegionCategory", arg |-> title,
                   ret |-> regionFields(Item(title, "", ""))]
    /\ UNCHANGED <<programVars, auxVars>>

\* One call of extractRegion
CallExtractRegion ==
    /\ call = NoCall
    /\ \E title \in RegionTitles, details \in RegionDetails :
          call' = [fn |-> "extractRegion", arg |-> <<title, details>>,
                   ret |-> extractRegion(title, details)]
    /\ UNCHANGED <<programVars, auxVars>>

NextCalls ==
    \/ CallRetry
    \/ CallExtract
    \/ CallField
    \/ CallDeadline
    \/ CallExtractId
    \/ CallCategory
    \/ CallRegionCategory
    \/ CallExtractRegion

\* The functions do not read the files or the listings: one state of the
\* program is enough to call them in
InitCalls ==
    /\ Init
    /\ listing = CHOOSE l \in Listings : TRUE
    /\ dbFile = CHOOSE d \in InitDbs : TRUE
    /\ ~kstAhead

SpecCalls == InitCalls /\ [][NextCalls]_vars

\* ========================================================================
\* The event loop: the await expressions of main and of what it calls
\* ========================================================================

\* One await expression: the operation it starts, the kind of operation, the
\* await expressions main may reach next when the operation returns, and
\* those it may reach when the operation throws ({} for a timer, "end" when
\* main is left)
Site(op, kind, next, onThrow) == [op |-> op, kind |-> kind, next |-> next, onThrow |-> onThrow]

\* The loop body of a listing walker of collect.js (page.goto, the pause,
\* the two page.evaluate); the catch of the walker breaks the loop, after
\* which main goes on with one of after
WalkerSites(s, after) ==
    { Site(s \o ".goto",    "navigation", {s \o ".sleep"}, after),
      Site(s \o ".sleep",   "timer",      {s \o ".items"}, {}),
      Site(s \o ".items",   "extraction", {s \o ".hasNext"} \cup after, after),
      Site(s \o ".hasNext", "extraction", {s \o ".goto"} \cup after, after) }

\* main of collect.js with collectBizinfo .. collectSmtech and
\* fetchItemDetail, whose catch returns to the pause of the detail loop
CollectSites ==
    { Site("launch",       "browser", {"newPage"}, {"end"}),
      Site("newPage",      "browser", {"setUserAgent"}, {"close"}),
      Site("setUserAgent", "browser", {"bizinfo.goto"}, {"close"}) }
    \cup WalkerSites("bizinfo", {"kstartup.goto"})
    \cup WalkerSites("kstartup", {"sbiz.goto"})
    \cup WalkerSites("sbiz", {"smtech.goto"})
    \cup WalkerSites("smtech", {"detail.goto", "close"})
    \cup
    { Site("detail.goto",     "navigation", {"detail.sleep"}, {"main.sleep"}),
      Site("detail.sleep",    "timer",      {"detail.wait", "detail.evaluate"}, {}),
      Site("detail.wait",     "extraction", {"detail.evaluate"}, {"detail.evaluate"}),
      Site("detail.evaluate", "extraction", {"main.sleep"}, {"main.sleep"}),
      Site("main.sleep",      "timer",      {"detail.goto", "close"}, {}),
      Site("close",           "browser",    {"sendMail", "end"}, {"end"}),
      Site("sendMail",        "api",        {"end"}, {"end"}) }

\* main of the daily content batch (part_002) with getNewItems,
\* scrapeDetail, generateMent, extractHwpContent, geminiCallWithRetry,
\* htmlToImage and the Drive upload
BatchSites ==
    LET afterScrape == {"scrape.goto", "hwp.newPage", "draft.call", "close"}
        afterCards  == {"item.sleep", "drive.list", "close"}
        afterDrive  == {"drive.list", "sendMail", "close"}
    IN
    { Site("launch",          "browser",    {"newPage"}, {"end"}),
      Site("newPage",         "browser",    {"setUserAgent"}, {"close"}),
      Site("setUserAgent",    "browser",    {"list.goto"}, {"close"}),
      Site("list.goto",       "navigation", {"list.sleep"}, {"close"}),
      Site("list.sleep",      "timer",      {"list.items"}, {}),
      Site("list.items",      "extraction", {"list.hasNext", "scrape.goto", "close"}, {"close"}),
      Site("list.hasNext",    "extraction", {"list.goto", "scrape.goto", "close"}, {"close"}),
      Site("scrape.goto",     "navigation", {"scrape.sleep"}, afterScrape),
      Site("scrape.sleep",    "timer",      {"scrape.evaluate"}, {}),
      Site("scrape.evaluate", "extraction", afterScrape, afterScrape),
      Site("item.sleep",      "timer",      {"hwp.newPage", "draft.call"}, {}),
      Site("hwp.newPage",     "browser",    {"hwp.setViewport"}, {"ment.pause"}),
      Site("hwp.setViewport", "browser",    {"hwp.setUserAgent"}, {"ment.pause"}),
      Site("hwp.setUserAgent", "browser",   {"hwp.goto"}, {"ment.pause"}),
      Site("hwp.goto",        "navigation", {"hwp.sleep"}, {"ment.pause"}),
      Site("hwp.sleep",       "timer",      {"hwp.totalPages"}, {}),
      Site("hwp.totalPages",  "extraction", {"hwp.screenshot", "hwp.close"}, {"ment.pause"}),
      Site("hwp.screenshot",  "extraction", {"hwp.scroll", "hwp.close"}, {"ment.pause"}),
      Site("hwp.scroll",      "extraction", {"hwp.scrollSleep"}, {"ment.pause"}),
      Site("hwp.scrollSleep", "timer",      {"hwp.screenshot"}, {}),
      Site("hwp.close",       "browser",    {"hwp.call"}, {"ment.pause"}),
      Site("hwp.call",        "api",        {"ment.pause"}, {"hwp.retrySleep", "ment.pause"}),
      Site("hwp.retrySleep",  "timer",      {"hwp.call"}, {}),
      Site("ment.pause",      "timer",      {"draft.call"}, {}),
      Site("draft.call",      "api",        {"draft.pause"}, {"draft.retrySleep", "card.newPage"}),
      Site("draft.retrySleep", "timer",     {"draft.call"}, {}),
      Site("draft.pause",     "timer",      {"review.call"}, {}),
      Site("review.call",     "api",        {"card.newPage"}, {"review.retrySleep", "card.newPage"}),
      Site("review.retrySleep", "timer",    {"review.call"}, {}),
      Site("card.newPage",    "browser",    {"card.setContent"}, afterCards),
      Site("card.setContent", "browser",    {"card.screenshot"}, afterCards),
      Site("card.screenshot", "extraction", {"card.close"}, afterCards),
      Site("card.close",      "browser",    {"card.newPage"} \cup afterCards, afterCards),
      Site("drive.list",      "api",        {"drive.createFolder", "drive.upload"} \cup afterDrive,
                                            afterDrive),
      Site("drive.createFolder", "api",     {"drive.upload"} \cup afterDrive, afterDrive),
      Site("drive.upload",    "api",        {"drive.upload"} \cup afterDrive, afterDrive),
      Site("sendMail",        "api",        {"close"}, {"close"}),
      Site("close",           "browser",    {"end"}, {"end"}) }

SitesOf(name) == IF name = "collect" THEN CollectSites ELSE BatchSites

\* The await expression main is at
siteAt == CHOOSE s \in SitesOf(loop.script) : s.op = loop.at

\* main() is called
StartLoop ==
    /\ loop = NoLoop
    /\ \E name \in {"collect", "batch"} :
          loop' = [script |-> name, at |-> "launch", waiting |-> FALSE, inFlight |-> {}]
    /\ UNCHANGED <<programVars, call, logFile, outputDir, outbox>>

\* main is running
onLoop == loop.script # "none" /\ loop.at # "end" /\ ~loop.waiting

\* An operation that is started and not awaited: main goes on to the next
\* await expression while the operation is in flight
IssueDetached ==
    /\ onLoop
    /\ \E n \in siteAt.next :
          loop' = [loop EXCEPT !.inFlight = @ \cup {loop.at}, !.at = n]
    /\ UNCHANGED <<programVars, call, logFile, outputDir, outbox>>

\* await op(): the operation is started and main is suspended until it
\* has settled
Issue ==
    /\ onLoop
    /\ loop' = [loop EXCEPT !.inFlight = @ \cup {loop.at}, !.waiting = TRUE]
    /\ UNCHANGED <<programVars, call, logFile, outputDir, outbox>>

\* An operation in flight returns or throws; main, if it awaits this
\* operation, resumes at one of the next await expressions
Settle ==
    /\ \E op \in loop.inFlight, o \in {"returns", "throws"} :
        LET s    == CHOOSE x \in SitesOf(loop.script) : x.op = op
            succ == IF o = "returns" THEN s.next ELSE s.onThrow
        IN /\ succ # {}
           /\ IF loop.waiting /\ op = loop.at
              THEN \E n \in succ :
                      loop' = [loop EXCEPT !.inFlight = @ \ {op}, !.waiting = FALSE, !.at = n]
              ELSE loop' = [loop EXCEPT !.inFlight = @ \ {op}]
    /\ UNCHANGED <<programVars, call, logFile, outputDir, outbox>>

\* main has returned and the process exits
Finish ==
    /\ loop.script # "none"
    /\ loop.at = "end"
    /\ loop' = NoLoop
    /\ UNCHANGED <<programVars, call, logFile, outputDir, outbox>>

NextLoop ==
    \/ StartLoop
    \/ Issue
    \/ Settle
    \/ Finish

SpecLoop == InitCalls /\ [][NextLoop]_vars

\* ========================================================================
\* The claims
\* ========================================================================

OneTo(n) == [j \in 1..n |-> j]

IsPrefix(a, b) == Len(a) <= Len(b) /\ a = SubSeq(b, 1, Len(a))

\* The items a walker of script scr reads from page p of source s
pageItems(scr, s, p) == IF scr = "daily" THEN PageAt(s, p).items ELSE itemsOfPage(s, p)

\* The id of the item is in seen-store d, under the id the script gives it
seenBy(scr, s, item, d) ==
    IF scr = "daily"
    THEN extractIdSingleTable[item.url] # NullId /\ extractIdSingleTable[item.url] \in DOMAIN d
    ELSE (s \o "_" \o extractIdTable[item.url]) \in DOMAIN d

\* Page p yields no id that is absent from the seen-store, and an item of
\* page p or of an earlier page was already in it
earlyStopDue(scr, s, p, d) ==
    /\ \A k \in 1..Len(pageItems(scr, s, p)) : seenBy(scr, s, pageItems(scr, s, p)[k], d)
    /\ \E q \in 1..p : \E k \in 1..Len(pageItems(scr, s, q)) :
          seenBy(scr, s, pageItems(scr, s, q)[k], d)

\* No page was navigated to after a page of source s that met the rule
stopsEarly(s) ==
    \A j \in 1..(Len(navigated[s]) - 1) : ~earlyStopDue(script, s, navigated[s][j], dbAtStart)

allSeenPage(p) ==
    \A k \in 1..Len(PageAt("bizinfo", p).items) :
       seenBy("daily", "bizinfo", PageAt("bizinfo", p).items[k], dbAtStart)

\* Page p mixes new and already-seen items
mixedPage(p) ==
    LET items == PageAt("bizinfo", p).items
    IN /\ \E k \in 1..Len(items) : seenBy("daily", "bizinfo", items[k], dbAtStart)
       /\ \E k \in 1..Len(items) : ~seenBy("daily", "bizinfo", items[k], dbAtStart)

\* The first page of the listing on which every id is already seen, 0 when
\* there is none
confirmPage ==
    LET all == {p \in 1..Len(listing["bizinfo"]) : allSeenPage(p)}
    IN IF all = {} THEN 0 ELSE Least(all)

\* The case of C2: page k = confirmPage exists within maxPages, an earlier
\* page is mixed and every page before k links to the next one
confirmCase ==
    /\ script = "daily"
    /\ confirmPage # 0
    /\ confirmPage <= maxPages
    /\ \E q \in 1..(confirmPage - 1) : mixedPage(q)
    /\ \A q \in 1..(confirmPage - 1) : PageAt("bizinfo", q).hasNext

\* The items of pages 1..k whose id is not in the seen-store, in page order
\* and then in in-page order
RECURSIVE unseenUpTo(_)
unseenUpTo(k) ==
    IF k = 0 THEN <<>>
    ELSE unseenUpTo(k - 1) \o
         SelectSeq(PageAt("bizinfo", k).items,
                   LAMBDA it : ~seenBy("daily", "bizinfo", it, dbAtStart))

\* C2: for getNewItems, when page k <= maxPages is the first page on which
\* every id is already in the seen-store, an earlier page mixed new and
\* seen ids and the pages before k link to the next one, the walker never
\* navigates beyond page k, and when it returns it has navigated exactly
\* pages 1..k and returns exactly the unseen items of pages 1..k, in page
\* order and then in in-page order.
C2_ConfirmatoryPage ==
    confirmCase =>
       /\ IsPrefix(navigated["bizinfo"], OneTo(confirmPage))
       /\ walkEnd["bizinfo"] \notin {"none", "error"} =>
             /\ navigated["bizinfo"] = OneTo(confirmPage)
             /\ newItems = unseenUpTo(confirmPage)

\* getNewItems has returned after the third page, the confirmatory one,
\* with new items of two earlier pages
C2_Witness ==
    /\ confirmCase
    /\ confirmPage = 3
    /\ walkEnd["bizinfo"] = "early"
    /\ Len(newItems) >= 2
    /\ \E k \in 1..Len(newItems) : extractIdSingleTable[newItems[k].url] = NullId

\* The run of the collector that follows a completed run of the collector
secondRun ==
    /\ script = "collect"
    /\ prev.script = "collect"
    /\ prev.outcome = "completed"

\* Nothing is new in this run: no record, no count, no notification, and
\* the snapshot it has written when it completed says the same
nothingNew ==
    /\ \A k \in 1..Len(allItemsOf(sourceResults)) : ~allItemsOf(sourceResults)[k].isNew
    /\ totalNew = 0
    /\ mailBody = <<>>
    /\ outcome = "completed" =>
          /\ todayListFile.newCount = 0
          /\ \A k \in 1..Len(allItemsOf(todayListFile.sources)) :
                ~allItemsOf(todayListFile.sources)[k].isNew

C4_FetchedAtMostOnce == \A i \in DOMAIN fetchTotal : fetchTotal[i] <= 1

\* Two different positions of the run's output
recordPairs(sr) ==
    {<<a, b>> \in (1..Len(allItemsOf(sr))) \X (1..Len(allItemsOf(sr))) : a < b}

\* The title with a leading bracketed tag stripped and white space collapsed
normalizedOf(r) == normalizedTitleTable[r.title]

\* C5 as stated: in every run of the collector no two records of the run's
\* output share a normalized title, whichever sources they come from.
C5_TitlesUniqueAcrossSources ==
    script = "collect" =>
       \A pr \in recordPairs(sourceResults) :
          normalizedOf(allItemsOf(sourceResults)[pr[1]]) #
             normalizedOf(allItemsOf(sourceResults)[pr[2]])

\* C5, amended: no two records of the same source share a normalized
\* title; of several items of one source with equal normalized title the
\* first one discovered is the one kept, and every normalized title the
\* walker of a source found has its record.
C5_TitlesUniquePerSource ==
    script = "collect" =>
       \A s \in DOMAIN sourceResults :
          LET recs == sourceResults[s]
          IN /\ \A a, b \in 1..Len(recs) :
                   a # b => normalizedOf(recs[a]) # normalizedOf(recs[b])
             /\ \A a \in 1..Len(recs) :
                   \E j \in 1..Len(raw[s]) :
                      /\ raw[s][j].url = recs[a].url
                      /\ raw[s][j].title = recs[a].title
                      /\ \A i \in 1..(j - 1) :
                            normalizedOf(raw[s][i]) # normalizedOf(raw[s][j])
             /\ \A j \in 1..Len(raw[s]) :
                   \E a \in 1..Len(recs) : normalizedOf(recs[a]) = normalizedOf(raw[s][j])

\* The walker of a source has returned two items of equal normalized title
\* and different URL, and the later one is not in the output
C5_Witness ==
    /\ script = "collect"
    /\ \E s \in DOMAIN sourceResults :
          \E i, j \in 1..Len(raw[s]) :
             /\ i < j
             /\ normalizedOf(raw[s][i]) = normalizedOf(raw[s][j])
             /\ raw[s][i].title # raw[s][j].title
             /\ \A a \in 1..Len(sourceResults[s]) : sourceResults[s][a].url # raw[s][j].url

\* C6: in every daily snapshot the collector writes, no two records have
\* the same id, for any listing content, two entries with the same URL and
\* different titles included.
C6_SnapshotIdsUnique ==
    \A pr \in recordPairs(todayListFile.sources) :
       allItemsOf(todayListFile.sources)[pr[1]].id #
          allItemsOf(todayListFile.sources)[pr[2]].id

\* C7: the persisted seen-store is append-only: every id that was in
\* collected_ids.json before a run of any script is still in it afterwards,
\* with its value unchanged.
C7_AppendOnly ==
    \A i \in DOMAIN dbAtStart : i \in DOMAIN dbFile /\ dbFile[i] = dbAtStart[i]

\* The detail phase of this run of the collector has run to its end:
\* nothing reached the catch of main and the process was not killed
detailPhaseDone ==
    /\ script = "collect"
    /\ pc \in {"write", "mail", "idle"}
    /\ caught = "none"
    /\ outcome # "crashed"

\* C8: after the detail phase of a run, every record id of the run has an
\* entry in the persisted DetailCache, also when its fetch failed, was
\* skipped for a non-http URL or produced no field; an id that has an entry
\* is not fetched by a later run.
C8_EveryIdCached ==
    /\ detailPhaseDone =>
          \A k \in 1..Len(allItemsOf(sourceResults)) :
             allItemsOf(sourceResults)[k].id \in DOMAIN cacheFile
    /\ (script = "collect" /\ pc = "detail") =>
          \A k \in 1..Len(fetchLog) : fetchLog[k] \notin DOMAIN cacheFile

\* A later run reaches the end of its detail phase without a single fetch,
\* the output holding a record of a non-http URL and a record whose fetch
\* failed or found no field, both with an empty entry in the cache
C8_Witness ==
    /\ detailPhaseDone
    /\ run >= 2
    /\ pc = "write"
    /\ fetchLog = <<>>
    /\ \E k \in 1..Len(allItemsOf(sourceResults)) :
          LET r == allItemsOf(sourceResults)[k]
          IN ~Fetchable(r.url) /\ cacheFile[r.id] = NoDetail
    /\ \E k \in 1..Len(allItemsOf(sourceResults)) :
          LET r == allItemsOf(sourceResults)[k]
          IN Fetchable(r.url) /\ cacheFile[r.id] = NoDetail

\* C9: when a run of the collector stops after the detail of k items has
\* been fetched and before the detail loop has finished, the persisted
\* DetailCache holds the entries of those k items.
C9_DurableProgress ==
    (script = "collect" /\ outcome = "crashed") =>
       \A k \in 1..Len(fetchLog) : fetchLog[k] \in DOMAIN cacheFile

\* The items of pages 1..p of source s as its walker reads them
RECURSIVE pagesUpTo(_, _)
pagesUpTo(s, p) == IF p <= 0 THEN <<>> ELSE pagesUpTo(s, p - 1) \o itemsOfPage(s, p)

\* C10: in the collector, when navigating or reading page p of source S
\* throws, the walker of S stops at once (p is the last page it navigates
\* to), the items gathered from pages 1..p-1 of S stay in the run's output
\* (as processItems keeps them), and the walkers of all sources after S are
\* still executed.
C10_FaultIsolation ==
    script = "collect" =>
       \A n \in 1..Len(Sources) :
          LET s == Sources[n]
              p == failedPage[s]
          IN p > 0 =>
                /\ navigated[s] = OneTo(p)
                /\ walkEnd[s] = "error"
                /\ IsPrefix(pagesUpTo(s, p - 1), raw[s])
                /\ s \in DOMAIN sourceResults
                /\ \A j \in 1..Len(pagesUpTo(s, p - 1)) :
                      \E a \in 1..Len(sourceResults[s]) :
                         normalizedOf(sourceResults[s][a]) =
                            normalizedOf(pagesUpTo(s, p - 1)[j])
                /\ \A m \in (n + 1)..Len(Sources) :
                      IF pc = "walk"
                      THEN src <= m \/ walkEnd[Sources[m]] # "none"
                      ELSE walkEnd[Sources[m]] # "none"

\* The second page of a source has thrown: the items of its first page are
\* in the output and all later sources have been walked, with records
C10_Witness ==
    /\ script = "collect"
    /\ pc = "detail"
    /\ \E n \in 1..(Len(Sources) - 1) :
          /\ failedPage[Sources[n]] = 2
          /\ Len(sourceResults[Sources[n]]) > 0
          /\ \A m \in (n + 1)..Len(Sources) : walkEnd[Sources[m]] \notin {"none", "error"}
          /\ Len(sourceResults[Sources[Len(Sources)]]) > 0

\* The record of the item at position n of needDetail is in the output of
\* the run with an empty detail
degradedRecord(n) ==
    \E k \in 1..Len(allItemsOf(sourceResults)) :
       LET r == allItemsOf(sourceResults)[k]
       IN /\ r.id = needDetail[n].id
          /\ r.url = needDetail[n].url
          /\ r.title = needDetail[n].title
          /\ r.detail = NoDetail

\* C11: when the detail fetch of an item throws, fetchItemDetail returns
\* an empty detail: the record of the item stays in the output of the run
\* with an empty detail, and the details of all remaining items are still
\* fetched.
C11_FailedFetchDegrades ==
    /\ (script = "collect" /\ pc = "detail") =>
          \A j \in 1..Len(fetchThrew) :
             /\ fetchLog[fetchThrew[j]] \in DOMAIN detailCache
             /\ fetchThrew[j] < di
    /\ detailPhaseDone =>
          /\ fetchLog = [n \in 1..Len(needDetail) |-> needDetail[n].id]
          /\ \A j \in 1..Len(fetchThrew) : degradedRecord(fetchThrew[j])

\* C12: a failure to write a persistent store is fatal to the run: once
\* saveDetailCache has thrown, the run writes no snapshot file and no
\* seen-store file and sends no notification.
C12_CacheWriteFatal ==
    [][(script = "collect" /\ caught = "saveThrows") =>
          /\ todayListFile' = todayListFile
          /\ dailyFiles' = dailyFiles
          /\ dbFile' = dbFile
          /\ mailBody' = mailBody]_vars

\* The call variable holds a call of geminiCallWithRetry
retryCall == call.fn = "geminiCallWithRetry"

\* The attempts 1..n of the call all failed with a rate-limit error
rateLimited(n) == \A k \in 1..n : ~call.arg[k].ok /\ is429(call.arg[k])

\* C14: geminiCallWithRetry on a call that keeps failing with a rate-limit
\* error makes exactly 4 attempts, waiting 60 s, 120 s and 600 s in that
\* order between them, and then throws an error flagged isQuotaExceeded; a
\* call that fails with any other error is not retried, its error being
\* rethrown after the first attempt; a successful attempt returns at once
\* with no further attempt.
C14_TieredRetry ==
    retryCall =>
       /\ rateLimited(4) =>
             /\ call.ret.attempts = 4
             /\ call.ret.waits = <<60000, 120000, 600000>>
             /\ call.ret.result = "thrown"
             /\ call.ret.isQuotaExceeded
       /\ (~call.arg[1].ok /\ ~is429(call.arg[1])) =>
             /\ call.ret.attempts = 1
             /\ call.ret.waits = <<>>
             /\ call.ret.result = "thrown"
             /\ call.ret.thrown = call.arg[1].message
             /\ ~call.ret.isQuotaExceeded
       /\ \A n \in 1..4 :
             (rateLimited(n - 1) /\ call.arg[n].ok) =>
                /\ call.ret.attempts = n
                /\ call.ret.result = "returned"
                /\ call.ret.waits = SubSeq(<<60000, 120000, 600000>>, 1, n - 1)

\* A call that met the rate limit four times, with both kinds of message
C14_Witness ==
    /\ retryCall
    /\ rateLimited(4)
    /\ \E k \in 1..4 : includes(call.arg[k].message, "quota")
    /\ \E k \in 1..4 : includes(call.arg[k].message, "429")
    /\ call.ret.isQuotaExceeded

\* The run of the batch has come to its end without an error in main
batchDone == script = "batch" /\ pc = "idle" /\ outcome = "completed"

\* The position of the first item of the batch for which a generative call
\* used up its retries
firstExhausted == batch.exhausted[1]

\* C13: in the daily content batch, when the generative call for item k
\* uses up all rate-limit retries, the quota-exceeded signal reaches the
\* batch loop: item k and every later item are put on the skipped list
\* without any further generative call, they are not written to the
\* seen-store, and the outputs and the seen-store entries of the items
\* processed before k are kept.
C13_QuotaStopsBatch ==
    (script = "batch" /\ batch.exhausted # <<>>) =>
       LET k    == firstExhausted
           upTo == IF pc = "batchItem" THEN di - 1 ELSE Len(results)
       IN /\ batch.quotaExceeded
          /\ \A i \in k..upTo :
                \E n \in 1..Len(batch.skippedItems) : batch.skippedItems[n] = results[i].url
          /\ \A n \in 1..Len(batch.calls) : batch.calls[n] <= k
          /\ \A i \in 1..(k - 1) :
                \E n \in 1..Len(batch.written) : batch.written[n] = results[i].url
          /\ batchDone =>
                /\ \A i \in k..Len(results) :
                      LET id == extractIdSingleTable[results[i].url]
                      IN (\A j \in 1..(k - 1) : extractIdSingleTable[results[j].url] # id)
                            => (id \in DOMAIN dbFile => id \in DOMAIN dbAtStart)
                /\ \A i \in 1..(k - 1) :
                      extractIdSingleTable[results[i].url] # NullId
                         => extractIdSingleTable[results[i].url] \in DOMAIN dbFile

\* C15: in the selected-URL generator, when the content generation for
\* input URL k fails for good, what was produced before is preserved: the
\* ids of the URLs 1..k-1 that were fully processed are in the persisted
\* seen-store at the end of the run.
C15_EarlierUrlsPersisted ==
    (script = "selected" /\ pc = "idle" /\ caught = "generateThrows") =>
       \A k \in 1..Len(results) :
          LET id == extractIdSingleTable[results[k].url]
          IN id # NullId => id \in DOMAIN dbFile

\* The call variable holds a call of extractValue
extractCall == call.fn = "extractValue"

\* The keys and the document of the call
callKeys == FIELDS[call.arg[1]]

callDoc == call.arg[2]

\* The values the header/value rows of the document give for the keys
headerRowValues ==
    {getThTdValue(stripSpaces(callKeys[k]), callDoc) : k \in 1..Len(callKeys)} \ {""}

\* C16: the patterns are tried in the order header/value row,
\* plain row, definition pair, labelled element over all synonyms of the
\* field: whenever a header/value row matching any synonym holds an
\* accepted value, the extracted value is that of a header/value row.
C16_HeaderRowFirst ==
    extractCall => (headerRowValues # {} => call.ret \in headerRowValues)

\* The call variable holds a call of extractDeadlineFromPeriod
deadlineCall == call.fn = "extractDeadlineFromPeriod"

\* The positions of the string where a date-like substring begins
dateStarts(s) == {i \in 1..Len(s) : DateAt(s, i).ok}

\* The occurrences of the date pattern in s, read from left to right: a
\* date-like substring counts unless it begins inside an occurrence
occurrences(s) ==
    CHOOSE M \in SUBSET dateStarts(s) :
       \A i \in dateStarts(s) :
          i \in M <=> ~(\E j \in M : j < i /\ i <= DateAt(s, j).end)

\* The greatest element of a non-empty set of integers
Greatest(S) == CHOOSE x \in S : \A y \in S : y <= x

\* YYYY-MM-DD
isIsoDate(t) ==
    /\ Len(t) = 10
    /\ \A i \in {1, 2, 3, 4, 6, 7, 9, 10} : Char(t, i) \in Digits
    /\ Char(t, 5) = "-"
    /\ Char(t, 8) = "-"

\* C17: extractDeadlineFromPeriod returns the empty string when the input
\* is empty or holds no date-like substring, and otherwise the last
\* date-like substring of the input as YYYY-MM-DD, month and day padded
\* with a zero to two digits; with two or more dates it is the last one.
C17_LastDateNormalized ==
    deadlineCall =>
       IF dateStarts(call.arg) = {} THEN call.ret = ""
       ELSE LET last == DateAt(call.arg, Greatest(occurrences(call.arg)))
            IN /\ isIsoDate(call.ret)
               /\ SubSeq(call.ret, 1, 4) = last.y
               /\ SubSeq(call.ret, 6, 7) \in {last.m, "0" \o last.m}
               /\ SubSeq(call.ret, 9, 10) \in {last.d, "0" \o last.d}

\* A string of three dates, the last with a one-digit month and day
C17_Witness ==
    /\ deadlineCall
    /\ Cardinality(occurrences(call.arg)) >= 3
    /\ LET first == DateAt(call.arg, Least(occurrences(call.arg)))
           last  == DateAt(call.arg, Greatest(occurrences(call.arg)))
       IN /\ first.m # last.m
          /\ Len(last.m) = 1
          /\ Len(last.d) = 1
          /\ call.ret = last.y \o "-0" \o last.m \o "-0" \o last.d

\* The date the walker of source s read on the listing for record r
rawDateOf(s, r) ==
    raw[s][CHOOSE j \in 1..Len(raw[s]) : raw[s][j].url = r.url /\ raw[s][j].title = r.title].date

\* The extracted period of a record, "" when it has none
periodOf(r) == IF "period" \in DOMAIN r.detail THEN r.detail["period"] ELSE ""

\* The records of the run after the detail phase, each with its source
donePairs ==
    IF detailPhaseDone
    THEN UNION {{<<s, a>> : a \in 1..Len(sourceResults[s])} : s \in DOMAIN sourceResults}
    ELSE {}

\* C18: for every record the deadline normalizer is applied to the
\* extracted period or, when the period is empty, to the raw date string of
\* the listing; whenever that input holds a date, the date field of the
\* record in the snapshot is the normalized YYYY-MM-DD deadline and not the
\* raw string, also for a listing date that is a single date without '~'.
C18_DateAlwaysNormalized ==
    \A sa \in donePairs :
       LET r     == sourceResults[sa[1]][sa[2]]
           input == IF periodOf(r) # "" THEN periodOf(r) ELSE rawDateOf(sa[1], r)
       IN dateStarts(input) # {} =>
             /\ isIsoDate(r.date)
             /\ r.date = extractDeadlineFromPeriod(input)

\* C18 (amended): the normalizer is applied to the extracted period and,
\* when the period holds no date, to the raw date string of the listing if
\* that string is a range with '~'; when it yields a deadline the date
\* field of the record in the snapshot is that deadline, otherwise (also
\* for a single listing date without '~') the raw listing string is kept.
C18_DateFromPeriodOrRange ==
    \A sa \in donePairs :
       LET r       == sourceResults[sa[1]][sa[2]]
           rawDate == rawDateOf(sa[1], r)
       IN IF dateStarts(periodOf(r)) # {}
          THEN isIsoDate(r.date) /\ r.date = extractDeadlineFromPeriod(periodOf(r))
          ELSE IF includes(rawDate, "~") /\ dateStarts(rawDate) # {}
          THEN isIsoDate(r.date) /\ r.date = extractDeadlineFromPeriod(rawDate)
          ELSE r.date = rawDate

\* The snapshot of a run is written with a record dated by its period, a
\* record dated by the range of its listing date, and a record that keeps
\* its single listing date
C18_Witness ==
    /\ detailPhaseDone
    /\ todayListFile = saveDataOf(sourceResults, totalCount, totalNew)
    /\ \E sa \in donePairs :
          LET r == sourceResults[sa[1]][sa[2]]
          IN dateStarts(periodOf(r)) # {} /\ r.date # rawDateOf(sa[1], r)
    /\ \E sa \in donePairs :
          LET r == sourceResults[sa[1]][sa[2]]
          IN /\ periodOf(r) = ""
             /\ includes(rawDateOf(sa[1], r), "~")
             /\ isIsoDate(r.date)
    /\ \E sa \in donePairs :
          LET r == sourceResults[sa[1]][sa[2]]
          IN /\ periodOf(r) = ""
             /\ dateStarts(rawDateOf(sa[1], r)) # {}
             /\ ~includes(rawDateOf(sa[1], r), "~")
             /\ ~isIsoDate(r.date)

\* The call variable holds a call of extractId
idCall == call.fn = "extractId"

\* The patterns of the list that match the URL
matching(url) == {k \in 1..Len(patterns) : MatchPattern(url, patterns[k]) # NoMatch}

\* C19: extractId applies its patterns in the listed order and returns the
\* capture of the first pattern that matches the URL: the capture of a
\* later pattern is returned only if no earlier one matches, and the hash
\* only if none matches at all; the same URL always yields the same id.
C19_FirstPatternWins ==
    idCall =>
       /\ call.ret = IF matching(call.arg) = {} THEN urlHash(call.arg)
                     ELSE MatchPattern(call.arg, patterns[Least(matching(call.arg))])
       /\ \A k \in matching(call.arg) :
             LET first == MatchPattern(call.arg, patterns[Least(matching(call.arg))])
             IN MatchPattern(call.arg, patterns[k]) # first
                   => call.ret # MatchPattern(call.arg, patterns[k])
       /\ matching(call.arg) # {} =>
             call.ret \in {MatchPattern(call.arg, patterns[k]) : k \in matching(call.arg)}
       /\ call.arg \in UrlPool => call.ret = extractIdTable[call.arg]

\* A URL that two patterns match, the one listed first matching further to
\* the right in the URL, and its capture is the id
C19_Witness ==
    /\ idCall
    /\ Cardinality(matching(call.arg)) = 2
    /\ 1 \in matching(call.arg)
    /\ 5 \in matching(call.arg)
    /\ call.ret = "PBLN_9"
    /\ MatchPattern(call.arg, patterns[5]) = "12"

\* The call variable holds a call of getCategory
categoryCall == call.fn = "getCategory"

\* The seven categories
Categories ==
    {CategoryGroups[n].category : n \in 1..Len(CategoryGroups)} \cup {DefaultCategory}

\* The keyword groups that have a keyword contained in the title
groupsIn(title) ==
    {n \in 1..Len(CategoryGroups) :
        \E kw \in CategoryGroups[n].keywords :
           \E i \in 1..(Len(title) - Len(kw) + 1) : SubSeq(title, i, i + Len(kw) - 1) = kw}

\* C20: getCategory is total and ordered: for every title it returns
\* exactly one of the seven fixed categories, the category of the first
\* keyword group in the order education, consulting/mentoring, global,
\* facility, funding, marketing that has a keyword contained in the title,
\* and the generic category when no group matches.
C20_CategoryTotalOrdered ==
    categoryCall =>
       /\ Cardinality(Categories) = 7
       /\ call.ret \in Categories
       /\ call.ret = IF groupsIn(call.arg) = {} THEN DefaultCategory
                     ELSE CategoryGroups[Least(groupsIn(call.arg))].category

\* A title with keywords of the global, the consulting and the education
\* group, in this order, is classified as education
C20_Witness ==
    /\ categoryCall
    /\ groupsIn(call.arg) = {1, 2, 3}
    /\ startsWith(call.arg, "muyeok")
    /\ call.ret = CategoryGroups[1].category


\* The call of getRegionCategory or extractRegion made, if any
regionCall == call.fn \in {"getRegionCategory", "extractRegion"}

regionTitle == IF call.fn = "extractRegion" THEN call.arg[1] ELSE call.arg

regionTag == IF call.fn = "extractRegion" THEN call.ret ELSE call.ret.regionCategory

\* The regions of the name table with a name in the title
regionsIn(title) == {RegionGroups[n].region : n \in regionTests(title)}

\* C21: the region tag of a record comes from its title: the leading
\* bracketed token when the title starts with one, else the region of a
\* name of the table found in the title, else the default.
C21_RegionFromTitle ==
    regionCall =>
        IF bracketToken(regionTitle) # NoMatch
        THEN regionTag = bracketToken(regionTitle)
        ELSE IF regionsIn(regionTitle) # {}
             THEN regionTag \in regionsIn(regionTitle)
             ELSE regionTag = DefaultRegion


\* The step in which main of collect.js writes its files without a failure
filesWritten ==
    /\ pc = "write"
    /\ script = "collect"
    /\ pc' # "write"
    /\ outcome' # "failed"

\* C22: a run of the collector that writes its files leaves the snapshot file
\* of the run date, deletes every daily file dated more than 7 days before
\* the run date and keeps every daily file dated 7 or fewer days before it.
C22_SevenDayRetention ==
    [][filesWritten =>
          dailyFiles' = {d \in dailyFiles \cup {today} : d >= today - RetentionDays}]_vars


\* The collector has written the snapshot of this run
snapshotWritten ==
    /\ script = "collect"
    /\ pc = "mail" \/ (pc = "idle" /\ outcome = "completed")

\* The records of the snapshot file
snapshotRecords == allItemsOf(todayListFile.sources)

\* The records of source s that processItems makes of the walker's items and
\* whose id the seen-store held when the run started
seenRecords(s) ==
    filter(processItems(raw[s], s, dbAtStart), LAMBDA r : r.id \in DOMAIN dbAtStart)

\* C23: the records whose id was in the seen-store are in the snapshot of the
\* run with isNew = false, and every record the notification lists has
\* isNew = true and an id the seen-store did not hold.
C23_SeenKeptNotNotified ==
    /\ snapshotWritten =>
          \A s \in DOMAIN sourceResults :
             \A k \in 1..Len(seenRecords(s)) :
                \E j \in 1..Len(todayListFile.sources[s]) :
                   /\ todayListFile.sources[s][j].id = seenRecords(s)[k].id
                   /\ todayListFile.sources[s][j].title = seenRecords(s)[k].title
                   /\ ~todayListFile.sources[s][j].isNew
    /\ \A i \in 1..Len(mailBody) :
          /\ mailBody[i] \notin DOMAIN dbAtStart
          /\ \A k \in 1..Len(snapshotRecords) :
                snapshotRecords[k].id = mailBody[i] => snapshotRecords[k].isNew

\* A run has sent a notification and its snapshot holds a record that was
\* seen before
C23_Witness ==
    /\ snapshotWritten
    /\ pc = "idle"
    /\ Len(mailBody) > 0
    /\ \E k \in 1..Len(snapshotRecords) :
          /\ ~snapshotRecords[k].isNew
          /\ snapshotRecords[k].id \in DOMAIN dbAtStart
          /\ \A i \in 1..Len(mailBody) : mailBody[i] # snapshotRecords[k].id


\* The page limit of the walker of source s in the running script
pageLimit(s) == IF script = "collect" THEN MaxPagesOf(s) ELSE maxPages

\* A walker is in its loop
walking == pc \in {"walk", "dailyWalk"}

\* The walker of source s has left its loop
walkerDone(s) == IF script = "collect" THEN walkEnd[s] # "none" ELSE pc # "dailyWalk"

\* The pages walked are 1, 2, ... up to the limit at most, and every page
\* but the last one had items and a link to the next page
boundedWalk(s) ==
    /\ Len(navigated[s]) <= pageLimit(s)
    /\ Len(navigated[s]) = pageLimit(s) => walkerDone(s)
    /\ \A k \in 1..Len(navigated[s]) : navigated[s][k] = k
    /\ \A k \in 1..(Len(navigated[s]) - 1) :
          /\ Len(PageAt(s, k).items) > 0
          /\ PageAt(s, k).hasNext

\* C24: a listing walker navigates to at most its page limit and leaves its
\* loop; it navigates to no page after a page without items or without a
\* link to the next page.
C24_BoundedWalk ==
    /\ [](\A s \in SourceSet : boundedWalk(s))
    /\ walking ~> ~walking

\* One run of the collector in which a walker stopped at its page limit,
\* one at an empty page and one at a page without a link to the next
C24_Witness ==
    /\ script = "collect"
    /\ \E s \in SourceSet : walkEnd[s] = "cap" /\ Len(navigated[s]) = MaxPagesOf(s)
    /\ \E s \in SourceSet : walkEnd[s] = "empty" /\ Len(navigated[s]) > 1
    /\ \E s \in SourceSet : walkEnd[s] = "noNext" /\ Len(navigated[s]) > 1


\* C25: a run is strictly sequential: at most one navigation, extraction or
\* API call is in flight at any time, and main starts the next operation
\* only when the one before has settled.
C25_OneInFlight ==
    /\ Cardinality(loop.inFlight) <= 1
    /\ ~loop.waiting => loop.inFlight = {}
    /\ loop.waiting => loop.inFlight = {loop.at}

\* The review call of the generative API is in flight, main awaiting it
C25_Witness ==
    /\ loop.script = "batch"
    /\ loop.at = "review.call"
    /\ loop.waiting
    /\ siteAt.kind = "api"
    /\ loop.inFlight = {"review.call"}


\* The call of fieldValue made, if any
fieldCall == call.fn = "fieldValue"

\* A value that is neither a placeholder nor too short to be kept
informative(t) == trim(t) \notin JUNK_VALUES /\ Len(trim(t)) > 3

\* A text that a strategy compares with a key of some field
isLabel(t) ==
    \E f \in DOMAIN FIELDS : \E k \in 1..Len(FIELDS[f]) :
       includes(stripSpaces(t), stripSpaces(FIELDS[f][k]))

blanked(t) == IF informative(cleanText(t)) \/ isLabel(t) THEN t ELSE ""

\* The document with every uninformative value blanked: what the strategies
\* see when such a value is rejected where it is found
withoutJunk(doc) ==
    [rows   |-> [r \in 1..Len(doc.rows) |->
                    [c \in 1..Len(doc.rows[r]) |->
                        [doc.rows[r][c] EXCEPT !.text = blanked(@)]]],
     dts    |-> [n \in 1..Len(doc.dts) |-> [doc.dts[n] EXCEPT !.dd = blanked(@)]],
     labels |-> [n \in 1..Len(doc.labels) |-> [doc.labels[n] EXCEPT !.sib = blanked(@)]]]

\* C26: a placeholder or too short value is rejected by the strategy that
\* finds it, so that the field gets the value of the first strategy that
\* finds an informative one.
C26_JunkFallsThrough ==
    fieldCall =>
        LET field == call.arg[1]
            doc   == call.arg[2]
            value == extractValue(FIELDS[field], withoutJunk(doc))
        IN value # "" => call.ret = value

\* ------------------------------------------------------------------------
\* C27
\* ------------------------------------------------------------------------

\* (h * 31 + code) modulo 2^32 on a word <<hi, lo>>
times31(h, code) ==
    LET lo == h[2] * 31 + code
        hi == h[1] * 31 + (lo \div Half)
    IN <<hi % Half, lo % Half>>

\* h := (h * 31 + charCode) modulo 2^32 folded over the first n characters
RECURSIVE foldedHash(_, _)
foldedHash(url, n) ==
    IF n = 0 THEN <<0, 0>>
    ELSE CHOOSE r \in {times31(h, charCodeAt(Char(url, n))) : h \in {foldedHash(url, n - 1)}} : TRUE

\* The absolute value of the word read as a signed 32-bit integer, again as
\* <<hi, lo>>: 2^31 is <<32768, 0>>
magnitude(h) ==
    IF h[1] < 32768 THEN h
    ELSE <<Half - h[1] - (IF h[2] = 0 THEN 0 ELSE 1), (Half - h[2]) % Half>>

\* The value of a base-36 digit, -1 for any other character
digit36(c) ==
    IF \E i \in 1..36 : Char(Base36Digits, i) = c
    THEN (CHOOSE i \in 1..36 : Char(Base36Digits, i) = c) - 1
    ELSE 0 - 1

\* The number the first n base-36 digits of s write, as <<hi, lo>>
RECURSIVE parse36(_, _)
parse36(s, n) ==
    IF n = 0 THEN <<0, 0>>
    ELSE LET v  == parse36(s, n - 1)
             lo == v[2] * 36 + digit36(Char(s, n))
         IN <<v[1] * 36 + (lo \div Half), lo % Half>>

\* s is what toString(36) writes for a non-negative integer
isBase36(s) ==
    /\ s # ""
    /\ \A i \in 1..Len(s) : digit36(Char(s, i)) >= 0
    /\ Len(s) > 1 => Char(s, 1) # "0"

\* C27: extractId returns a non-empty id for every URL string, the empty
\* string and URLs that match no pattern included; when no pattern
\* matches, the id is the base-36 rendering of the absolute value of the
\* hash h := (h * 31 + charCode) modulo 2^32 (read as a signed 32-bit
\* integer) folded over the URL, a number from 0 to 2^31.
C27_TotalHashedId ==
    idCall =>
       /\ call.ret # ""
       /\ matching(call.arg) = {} =>
             LET m == magnitude(foldedHash(call.arg, Len(call.arg)))
             IN /\ isBase36(call.ret)
                /\ parse36(call.ret, Len(call.ret)) = m
                /\ m[1] < 32768 \/ m = <<32768, 0>>

\* extractId has hashed a URL that matches no pattern and whose hash is
\* -2^31, the one value whose absolute value is 2^31
C27_Witness ==
    /\ idCall
    /\ matching(call.arg) = {}
    /\ call.arg # ""
    /\ foldedHash(call.arg, Len(call.arg)) = <<32768, 0>>
    /\ call.ret = "zik0zk"

\* ------------------------------------------------------------------------
\* C28
\* ------------------------------------------------------------------------

\* The ids a message lists
listedIn(m) == {m.text[k] : k \in 1..Len(m.text)}

\* The ids of the records of this run with isNew = true
newIds == IdsOf(filter(allItemsOf(sourceResults), LAMBDA r : r.isNew))

twoMessages ==
    /\ Len(outbox) = 2
    /\ outbox[1].run = 1 /\ outbox[2].run = 2
    /\ listedIn(outbox[1]) # {} /\ listedIn(outbox[2]) # {}

\* ------------------------------------------------------------------------
\* C29
\* ------------------------------------------------------------------------

\* A run has written its start marker to the log on day d
startedOn(d) == \E k \in 1..Len(logFile) : logFile[k].start /\ logFile[k].day = d

\* A step that starts a run of the unattended collector
autoStarts == script' = "auto" /\ run' = run + 1

\* The run of the unattended collector has ended at its guard
skipped == script = "auto" /\ outcome = "skipped"

\* C29: once a run of the unattended collector has written its start marker
\* on day D, a later run started on day D ends at its guard: it opens no
\* page and writes nothing to collected_ids.json, to the output directory
\* or to the log, however the first run ended.
C29_OncePerDay ==
    /\ [][(autoStarts /\ startedOn(today')) =>
             /\ pc' = "idle"
             /\ outcome' = "skipped"
             /\ UNCHANGED <<dbFile, outputDir, logFile>>]_vars
    /\ [](skipped =>
             /\ pc = "idle"
             /\ \A s \in SourceSet : navigated[s] = <<>>
             /\ dbFile = dbAtStart
             /\ run \notin outputDir)

\* The first run of the day wrote its start marker and failed at a page of
\* the listing; the second run of the same day has ended at its guard
C29_Witness ==
    /\ skipped
    /\ run = 2
    /\ prev.script = "auto"
    /\ prev.outcome = "failed"
    /\ startedOn(today)
    /\ Len(logFile) > Len(InitLog)

\* The run before completed and wrote its results
skippedAfterCompleted ==
    skipped /\ prev.outcome = "completed" /\ (run - 1) \in outputDir /\ dbFile # ([i \in {} |-> 0])

\* The run before found no new item
skippedAfterNothingNew ==
    skipped /\ prev.outcome = "completed" /\ outputDir = {}

\* A second run on the next day is not stopped by its guard
nextDayRuns ==
    script = "auto" /\ run = 2 /\ outcome # "skipped" /\ startedOn(today) /\ startedOn(today - 1)

\* ------------------------------------------------------------------------
\* C30
\* ------------------------------------------------------------------------

\* The pages of the listing whose items getNewItems has read in this run
readPages ==
    LET nav == navigated["bizinfo"]
    IN {nav[k] : k \in 1..Len(nav)} \ (IF caught = "gotoThrows" THEN {nav[Len(nav)]} ELSE {})

\* The items getNewItems has read in this run
readItems == UNION {{PageAt("bizinfo", p).items[k] : k \in 1..Len(PageAt("bizinfo", p).items)} :
                    p \in readPages}

\* extractId returns null for the URL of the item
noId(item) == extractIdSingleTable[item.url] = NullId

\* C30: in a run of the single-source script an item whose URL yields no id
\* is pushed to newItems whenever its page is read, hitExisting is set only
\* by an item that has an id the seen-store holds, and a result without an
\* id adds nothing to collected_ids.json.
C30_NoIdAlwaysNew ==
    script = "daily" =>
       /\ \A item \in readItems :
             noId(item) => \E j \in 1..Len(newItems) : newItems[j] = item
       /\ hitExisting =>
             \E item \in readItems :
                ~noId(item) /\ extractIdSingleTable[item.url] \in DOMAIN db
       /\ NullId \notin DOMAIN dbFile
       /\ \A i \in DOMAIN dbFile \ DOMAIN dbAtStart :
             /\ \E k \in 1..Len(results) : extractIdSingleTable[results[k].url] = i
             /\ \A k \in 1..Len(results) :
                   noId(results[k]) => dbFile[i][2] # results[k].title

\* The second of two completed runs has collected an item without an id
\* again, as the only new one, while the items that came with it in the
\* first run are in the seen-store and have stopped the walk early
C30_Witness ==
    /\ script = "daily" /\ run = 2 /\ pc = "idle" /\ outcome = "completed"
    /\ prev.script = "daily" /\ prev.outcome = "completed"
    /\ dbAtStart # ([i \in {} |-> SeedValue])
    /\ \A i \in DOMAIN dbAtStart : dbAtStart[i][1] = "entry" /\ dbAtStart[i][4] = 1
    /\ hitExisting
    /\ walkEnd["bizinfo"] = "early"
    /\ Len(results) = 1
    /\ noId(results[1])
    /\ dbFile = dbAtStart


====
